---- MODULE Spec2Model ----
(***************************************************************************)
(* The windowed document scan of cga.agents.doc.doc_agent.DocAgent: one    *)
(* engine instance scanning one document for a list of Target definitions, *)
(* the oracle (LLM) answering each request with a list of actions.         *)
(* A document is represented by its number of lines; a window by its first *)
(* and last line number.                                                   *)
(***************************************************************************)
EXTENDS Integers, Sequences, FiniteSets, TLC

VARIABLES
    agent,      \* the DocAgent instance's fields, and the Result objects it allocated
    stack,      \* the active calls of _start_loop, innermost last
    pc,         \* where the run is: init, loop, await, recurse, returned, raised
    error,      \* the exception that ended the run ("" if none)
    ti,         \* index in self.targets of the top-level target being scanned
    fs_lines,   \* number of lines of the document (fs.get_file_metadata(file).lines)
    hist,       \* history: the windows presented and the responses received
    cga,        \* the CallGraphAgent instance, the locals of its run, its DocAgent
    cfs,        \* a CachedLocalFileSystem instance, the disk, the last call's result
    omc         \* one call of parse_omitted_lines or omit_lines: arguments, outcome

vars == <<agent, stack, pc, error, ti, fs_lines, hist, cga, cfs, omc>>

(***************************************************************************)
(* Bounds of the model.                                                    *)
(***************************************************************************)
MaxActions == 2     \* actions in one oracle response
MaxFound == 2       \* found_target actions the oracle returns in one run
MaxRetries == 1     \* retry_with actions the oracle returns in one run

(***************************************************************************)
(* Program constants.                                                      *)
(***************************************************************************)
InitialEnd == 30    \* self._end_line = min(30, self._end_line_limit)
MoreLines == 30     \* self._next_more(30)

\* Line counts of the documents scanned.
DocSizes == {15, 61}

\* (start_line, end_line) pairs the oracle reports in found_target.
Spans == {<<10, 20>>, <<12, 15>>, <<35, 50>>}

\* (start, end, omitted_lines) triples the oracle asks for in retry_with.
RetryInputs == {<<5, 12, "7-9">>, <<25, 61, "">>}

\* What the oracle reports in the runs on the deep target list: the spans,
\* the start_line of a found_target that leaves out end_line, and a
\* retry_with for lines that lie before every span.
DeepSpans == {<<5, 8>>, <<10, 20>>}
DeepStarts == {35}
DeepRetryInputs == {<<1, 3, "">>}

Min(a, b) == IF a <= b THEN a ELSE b
Max(a, b) == IF a >= b THEN a ELSE b

(***************************************************************************)
(* Target definitions: the callgraph_targets fixture of test_doc_agent.py: *)
(* a "class" target whose child is the "function" target, and the          *)
(* "function" target again at top level; neither has a map_fn.             *)
(* DocAgent takes any list of Target: a second list puts a "module" target *)
(* above "class", next to a childless "method" target that has a map_fn    *)
(* (one that returns a dict for every input; the map_fn of                 *)
(* callgraph/doc_agent_targets.py raises KeyError on a missing field), so  *)
(* that Results occur three levels deep.                                   *)
(***************************************************************************)
TargetDefs ==
    [class    |-> [children |-> <<"function">>,        map_fn |-> FALSE],
     function |-> [children |-> <<>>,                  map_fn |-> FALSE],
     module   |-> [children |-> <<"class", "method">>, map_fn |-> FALSE],
     method   |-> [children |-> <<>>,                  map_fn |-> TRUE]]

Targets == <<"class", "function">>

DeepTargets == <<"module", "method">>

\* Python None for the object references and optional integers of the model.
None == 0

(***************************************************************************)
(* Result.data: the keyword arguments of found_target, or what map_fn made *)
(* of them (a mapped dict has no top-level start_line / end_line key).     *)
(***************************************************************************)
DataGetStart(data, default) ==
    IF data.has_start /\ ~data.mapped THEN data.start_line ELSE default

DataGetEnd(data, default) ==
    IF data.has_end /\ ~data.mapped THEN data.end_line ELSE default

\* _next_more with the sign of the step wrong: the window moves backwards.
NextMoreBackwards(a, lines) ==
    LET s == a.end_line - lines
    IN  [a EXCEPT !.start_line = s,
                  !.end_line = Min(s + lines, a.end_line_limit)]

(***************************************************************************)
(* DocAgent._next_more                                                     *)
(***************************************************************************)
NextMore(a, lines) ==
    LET s == a.end_line + 1
    IN  [a EXCEPT !.start_line = s,
                  !.end_line = Min(s + lines, a.end_line_limit)]

(***************************************************************************)
(* DocAgent._retry_with                                                    *)
(***************************************************************************)
RetryWith(a, start, end, omitted_lines) ==
    [a EXCEPT !.start_line = start,
              !.end_line = end,
              !.omitted_lines = omitted_lines]

\* The Result inserted at the head of the list instead of appended.
AppendResultAtHead(a, id) ==
    IF a.current_parent_found /= None
    THEN [a EXCEPT !.heap[a.current_parent_found].children = <<id>> \o @]
    ELSE [a EXCEPT !.found = <<id>> \o @]

(***************************************************************************)
(* DocAgent._found_target: kw is the action's input.                       *)
(***************************************************************************)
AppendResult(a, id) ==
    IF a.current_parent_found /= None
    THEN [a EXCEPT !.heap[a.current_parent_found].children = Append(@, id)]
    ELSE [a EXCEPT !.found = Append(@, id)]

\* _found_target taking the blacked range from the data the map_fn returned.
FoundTargetBlackingMapped(a, kw) ==
    LET data == [mapped     |-> TargetDefs[a.current_target].map_fn,
                 has_start  |-> kw.has_start,
                 has_end    |-> kw.has_end,
                 start_line |-> kw.start_line,
                 end_line   |-> kw.end_line]
        b == IF data.has_start /\ data.has_end /\ ~data.mapped
             THEN [a EXCEPT !.blacked_lines =
                                Append(@, <<kw.start_line, kw.end_line>>)]
             ELSE a
        result == [target_id |-> a.current_target,
                   data      |-> data,
                   children  |-> <<>>]
        id == Len(b.heap) + 1
        c == [b EXCEPT !.heap = Append(@, result)]
    IN  AppendResult(c, id)

FoundTarget(a, kw) ==
    LET b == IF kw.has_start /\ kw.has_end
             THEN [a EXCEPT !.blacked_lines =
                                Append(@, <<kw.start_line, kw.end_line>>)]
             ELSE a
        data == [mapped     |-> TargetDefs[a.current_target].map_fn,
                 has_start  |-> kw.has_start,
                 has_end    |-> kw.has_end,
                 start_line |-> kw.start_line,
                 end_line   |-> kw.end_line]
        result == [target_id |-> a.current_target,
                   data      |-> data,
                   children  |-> <<>>]
        id == Len(b.heap) + 1
        c == [b EXCEPT !.heap = Append(@, result)]
    IN  AppendResult(c, id)

(***************************************************************************)
(* Agent._handle_actions: the actions are dispatched in order by name; an  *)
(* unregistered name raises ValueError after the earlier ones were applied.*)
(***************************************************************************)
Registered(a, name) == name \in a.actions

Dispatch(a, action) ==
    IF action.name = "found_target"
    THEN FoundTarget(a, action.input)
    ELSE RetryWith(a, action.input.start_line, action.input.end_line,
                   action.input.omitted_lines)

RECURSIVE HandleActionsSkippingUnknown(_, _, _)
RECURSIVE HandleActions(_, _, _)

\* The handler passing over an unregistered name.
HandleActionsSkippingUnknown(a, actions, i) ==
    IF i > Len(actions) THEN [agent |-> a, raised |-> FALSE]
    ELSE IF ~Registered(a, actions[i].name)
    THEN HandleActionsSkippingUnknown(a, actions, i + 1)
    ELSE HandleActionsSkippingUnknown(Dispatch(a, actions[i]), actions, i + 1)

HandleActions(a, actions, i) ==
    IF i > Len(actions) THEN [agent |-> a, raised |-> FALSE]
    ELSE IF ~Registered(a, actions[i].name) THEN [agent |-> a, raised |-> TRUE]
    ELSE HandleActions(Dispatch(a, actions[i]), actions, i + 1)

(***************************************************************************)
(* The positioning step of _start_loop (the for loop over the blacked      *)
(* ranges): the first range whose start or end lies in the window adjusts  *)
(* it.  Returns the window and the local next_more_from.                   *)
(***************************************************************************)
NmfUnbound == [tag |-> "unbound", val |-> 0]
NmfNone == [tag |-> "None", val |-> 0]
NmfInt(v) == [tag |-> "int", val |-> v]

RECURSIVE SkipBlacked(_, _, _, _)
SkipBlacked(bl, i, s, e) ==
    IF i > Len(bl) THEN [start_line |-> s, end_line |-> e, nmf |-> NmfNone]
    ELSE IF s <= bl[i][1] /\ bl[i][1] <= e
    THEN [start_line |-> s, end_line |-> bl[i][1] - 1, nmf |-> NmfInt(bl[i][2] + 1)]
    ELSE IF s <= bl[i][2] /\ bl[i][2] <= e
    THEN [start_line |-> bl[i][2] + 1, end_line |-> e, nmf |-> NmfNone]
    ELSE SkipBlacked(bl, i + 1, s, e)

Positioning(a, nmf) ==
    IF ~a.same_level_targets_overlap /\ a.blacked_lines /= <<>>
    THEN SkipBlacked(a.blacked_lines, 1, a.start_line, a.end_line)
    ELSE [start_line |-> a.start_line, end_line |-> a.end_line, nmf |-> nmf]

\* The head of _start_loop with an add_action that keeps the action already
\* registered under the name.
StartLoopKeepingFirst(a, target) ==
    [a EXCEPT !.actions = @ \cup {"found_target", "retry_with"},
              !.found_schema = IF a.found_schema = "" THEN a.current_target ELSE @,
              !.start_line = Max(1, a.start_line_limit),
              !.end_line = Min(InitialEnd, a.end_line_limit),
              !.omitted_lines = ""]

(***************************************************************************)
(* The head of _start_loop: the actions are registered again (the schema   *)
(* of found_target is that of self._current_target) and the window is set  *)
(* to its first position.                                                  *)
(***************************************************************************)
StartLoop(a, target) ==
    [a EXCEPT !.actions = @ \cup {"found_target", "retry_with"},
              !.found_schema = a.current_target,
              !.start_line = Max(1, a.start_line_limit),
              !.end_line = Min(InitialEnd, a.end_line_limit),
              !.omitted_lines = ""]

\* The locals of one call of _start_loop(target); done is history: the limits
\* and the blacked ranges of the level when its while loop was left.
NewFrame(target) ==
    [target            |-> target,
     next_more_from    |-> NmfUnbound,
     target_found      |-> <<>>,
     ri                |-> 1,
     ci                |-> 1,
     old_end_lines     |-> 0,
     old_start_lines   |-> 0,
     old_blacked_lines |-> <<>>,
     done              |-> [lower |-> 0, upper |-> 0, blacked |-> <<>>]]

\* The ids, in the order of self._found, of the Results whose target_id is tid.
TargetFound(a, tid) ==
    SelectSeq(a.found, LAMBDA id : a.heap[id].target_id = tid)

\* Leaving the while loop: the first lines of the children part.
LoopExit(f, a) ==
    LET g == [f EXCEPT !.done = [lower   |-> a.start_line_limit,
                                 upper   |-> a.end_line_limit,
                                 blacked |-> a.blacked_lines]]
    IN  IF TargetDefs[f.target].children /= <<>>
        THEN [g EXCEPT !.target_found = TargetFound(a, f.target),
                       !.old_end_lines = a.end_line_limit,
                       !.old_start_lines = a.start_line_limit,
                       !.old_blacked_lines = a.blacked_lines]
        ELSE g

\* The child scan left with the limits of the whole document.
ChildLimitsNotNarrowed(data, old_end_lines) ==
    [lower |-> 1, upper |-> old_end_lines]

\* The read limits of the child scan of a Result.
ChildLimits(data, old_end_lines) ==
    [lower |-> DataGetStart(data, 1), upper |-> DataGetEnd(data, old_end_lines)]

(***************************************************************************)
(* CachedLocalFileSystem.read_file_with_lines on a document of n lines:    *)
(* lines[i] for i in range(start-1, end) raises IndexError, reported as    *)
(* ValueError, when an index is outside -n .. n-1.                         *)
(***************************************************************************)
ReadOK(start, end, n) ==
    \A i \in (start - 1)..(end - 1) : -n <= i /\ i < n

(***************************************************************************)
(* The oracle: a response is a list of at most MaxActions actions, among   *)
(* them at most one retry_with ("At most one retry_with action can be      *)
(* returned each time").                                                   *)
(***************************************************************************)
Input(hs, he, s, e, om) ==
    [has_start |-> hs, has_end |-> he, start_line |-> s, end_line |-> e,
     omitted_lines |-> om]

OracleActions ==
    {[name |-> "found_target", input |-> Input(TRUE, TRUE, sp[1], sp[2], "")] :
        sp \in IF agent.targets = DeepTargets THEN DeepSpans ELSE Spans}
    \cup {[name |-> "found_target", input |-> Input(TRUE, FALSE, s, 0, "")] :
        s \in IF agent.targets = DeepTargets THEN DeepStarts ELSE {}}
    \cup {[name |-> "retry_with", input |-> Input(TRUE, TRUE, r[1], r[2], r[3])] :
        r \in IF agent.targets = DeepTargets THEN DeepRetryInputs ELSE RetryInputs}
    \cup {[name |-> "unknown_action", input |-> Input(FALSE, FALSE, 0, 0, "")]}

SeqsUpTo(S, n) == UNION {[1..k -> S] : k \in 0..n}

Count(resp, name) == Cardinality({i \in DOMAIN resp : resp[i].name = name})

Names(resp) == {resp[i].name : i \in DOMAIN resp}

Responses ==
    {r \in SeqsUpTo(OracleActions, MaxActions) :
        /\ Count(r, "found_target") <= MaxFound - Len(agent.heap)
        /\ Count(r, "retry_with") <= Min(1, MaxRetries - hist.retries)}

(***************************************************************************)
(* Agent._llm_json.  A completion is its text ("" when nothing is left     *)
(* once the markers are stripped, "json" for a JSON object with the given  *)
(* actions list, "prose" for anything json.loads rejects), with or without *)
(* the markers of a fenced block around it.  The oracle fences the texts   *)
(* that carry no action.                                                   *)
(***************************************************************************)
Completions ==
    {[text |-> "json", fenced |-> FALSE, actions |-> r] : r \in Responses}
    \cup {[text |-> x, fenced |-> TRUE, actions |-> <<>>] :
             x \in {"", "json", "prose"}}
    \cup {[text |-> x, fenced |-> FALSE, actions |-> <<>>] : x \in {"", "prose"}}

\* trim_json_markers: the text without the markers around it.
TrimJsonMarkers(content) == [content EXCEPT !.fenced = FALSE]

\* _llm_json without the test for an empty text: json.loads("") raises.
LlmJsonEmptyIsError(content) ==
    LET trimmed_content == TrimJsonMarkers(content)
    IN  IF trimmed_content.text = "json"
        THEN [raised |-> FALSE, actions |-> trimmed_content.actions]
        ELSE [raised |-> TRUE, actions |-> <<>>]

\* "if not trimmed_content: return {}" and "return json.loads(trimmed_content)",
\* with the actions_res.get("actions", []) of the caller.
LlmJson(content) ==
    LET trimmed_content == TrimJsonMarkers(content)
    IN  IF trimmed_content.text = ""
        THEN [raised |-> FALSE, actions |-> <<>>]
        ELSE IF trimmed_content.text = "json"
        THEN [raised |-> FALSE, actions |-> trimmed_content.actions]
        ELSE [raised |-> TRUE, actions |-> <<>>]

(***************************************************************************)
(* History.                                                                *)
(***************************************************************************)
NoRetry == [set |-> FALSE, start_line |-> 0, end_line |-> 0, omitted_lines |-> ""]

\* A call of _start_loop(target) begins; a is the agent at its first pass.
LevelStart(h, a, target) ==
    [h EXCEPT !.windows = <<>>, !.pending = NoRetry, !.retried = FALSE,
              !.adjusted = FALSE, !.over = FALSE, !.target = target,
              !.lower = a.start_line_limit, !.upper = a.end_line_limit]

TheRetry(resp) ==
    LET i == CHOOSE i \in DOMAIN resp : resp[i].name = "retry_with"
    IN  [set |-> TRUE, start_line |-> resp[i].input.start_line,
         end_line |-> resp[i].input.end_line,
         omitted_lines |-> resp[i].input.omitted_lines]

Window(h) == h.windows[Len(h.windows)]

AfterResponse(h, a, resp, b) ==
    LET w == Window(h)
        o == [win_start |-> w.start_line, win_end |-> w.end_line,
              after_retry |-> w.after_retry \/ w.retry.set,
              parent |-> a.current_parent_found,
              target |-> h.target,
              scanned |-> IF Len(stack) > 1 THEN h.recursed[Len(h.recursed)]
                          ELSE None]
        hasRetry == "retry_with" \in Names(resp)
    IN  [h EXCEPT !.origin = @ \o [i \in 1..(Len(b.heap) - Len(a.heap)) |-> o],
                  !.pending = IF hasRetry THEN TheRetry(resp) ELSE NoRetry,
                  !.retried = @ \/ hasRetry,
                  !.retries = @ + Count(resp, "retry_with")]

\* The actions of a response that _handle_actions comes to: all of them, or
\* those up to the first one whose name is not registered.
Reached(a, actions) ==
    LET unknown == {k \in DOMAIN actions : ~Registered(a, actions[k].name)}
    IN  IF unknown = {} THEN actions
        ELSE SubSeq(actions, 1, CHOOSE k \in unknown : \A l \in unknown : k <= l)

\* The completion just received: whether its text is one json.loads takes
\* (an empty text counted in), the names of the actions _handle_actions came
\* to, and whether the response had more actions than these.
Answered(h, content) ==
    LET actions == LlmJson(content).actions
        reached == Reached(agent, actions)
    IN  [h EXCEPT !.last = [parses |-> TrimJsonMarkers(content).text /= "prose",
                            names  |-> [k \in DOMAIN reached |-> reached[k].name],
                            more   |-> Len(reached) < Len(actions)]]

(***************************************************************************)
(* CallGraphAgent.__init__ with the inputs of a run: the files that         *)
(* fs.list_files(file_or_dir) returns and the number of lines of each.     *)
(***************************************************************************)
CallGraphAgentNew(files, lines) ==
    [pc            |-> "init",
     error         |-> "",
     files         |-> files,
     lines         |-> lines,
     actions       |-> {"record_function_call"},
     graph         |-> [nodes |-> <<>>, edges |-> <<>>],
     doc_agent     |-> None,
     all_functions |-> <<>>,
     fi            |-> 1,
     ni            |-> 1,
     reports       |-> <<>>,
     calls         |-> <<>>,
     concats       |-> 0]

(***************************************************************************)
(* The files of cga/utils/fs.py.  A path is the sequence of its names, a   *)
(* text the sequence of its lines (content.splitlines()); no name of the   *)
(* model is the beginning of another name, so that one path string starts  *)
(* with another exactly when its names begin with the names of the other.  *)
(***************************************************************************)
Dirs == {<<"allowed">>, <<"other">>}
FilePaths == {<<"allowed", "a.py">>, <<"other", "b.py">>}
Texts == {<<"x">>, <<"x", "y", "z">>}

\* What a dictionary or the disk holds under a path: a text, or nothing.
Absent == [present |-> FALSE, text |-> <<>>]
Present(text) == [present |-> TRUE, text |-> text]
NoFiles == [p \in FilePaths |-> Absent]

\* The value of the result of the last call when the call gives none.
NoResult ==
    [op |-> "", path |-> <<>>, start_line |-> 0, end_line |-> 0,
     raised |-> "", text |-> <<>>, lines |-> 0, files |-> {}]

(***************************************************************************)
(* CachedLocalFileSystem.__init__ on a disk (a function from the paths of  *)
(* the files to their text).  seen is history: for each path the text of   *)
(* the latest write through the instance, else the text the disk held when *)
(* the instance first read the path.                                       *)
(***************************************************************************)
CachedLocalFileSystemNew(disk) ==
    [cache      |-> [p \in FilePaths |-> Absent],
     white_list |-> {},
     disk       |-> disk,
     seen       |-> [p \in FilePaths |-> Absent],
     last       |-> NoResult]

(***************************************************************************)
(* One call of a module-level function of cga/utils/fs.py with its         *)
(* arguments: fn is the function, omitted_lines the string given to        *)
(* parse_omitted_lines (a sequence of characters), lines and omitted_set    *)
(* the arguments of omit_lines.  The outcome is filled in by the call.     *)
(***************************************************************************)
NoCall ==
    [fn |-> "", pc |-> "init", omitted_lines |-> <<>>, lines |-> <<>>,
     omitted_set |-> {}, raised |-> "", result_set |-> {}, result |-> <<>>]

(***************************************************************************)
(* State after construction (DocAgent.__init__, Agent.__init__).           *)
(***************************************************************************)
Init ==
    /\ fs_lines \in DocSizes
    /\ agent = [targets |-> Targets,
                start_line |-> None,
                end_line |-> None,
                end_line_limit |-> None,
                start_line_limit |-> 1,
                omitted_lines |-> "",
                same_level_targets_overlap |-> FALSE,
                found |-> <<>>,
                current_parent_found |-> None,
                blacked_lines |-> <<>>,
                current_target |-> "",
                actions |-> {},
                found_schema |-> "",
                heap |-> <<>>]
    /\ stack = <<>>
    /\ pc = "init"
    /\ error = ""
    /\ ti = 0
    /\ hist = [windows |-> <<>>, pending |-> NoRetry, retried |-> FALSE,
               adjusted |-> FALSE, over |-> FALSE, target |-> "",
               lower |-> 0, upper |-> 0, retries |-> 0,
               origin |-> <<>>, recursed |-> <<>>,
               last |-> [parses |-> TRUE, names |-> <<>>, more |-> FALSE]]
    /\ cga = CallGraphAgentNew(<<>>, 0)
    /\ cfs = CachedLocalFileSystemNew(NoFiles)
    /\ omc = NoCall

Top == stack[Len(stack)]

SetTop(f) == [stack EXCEPT ![Len(stack)] = f]

(***************************************************************************)
(* DocAgent.run up to the first request of the first target.               *)
(***************************************************************************)
Run ==
    /\ pc = "init"
    /\ Len(agent.targets) >= 1
    /\ LET a == [agent EXCEPT !.start_line_limit = 1,
                              !.end_line_limit = fs_lines,
                              !.current_target = agent.targets[1]]
       IN  /\ agent' = StartLoop(a, agent.targets[1])
           /\ hist' = LevelStart(hist, a, agent.targets[1])
    /\ stack' = <<NewFrame(agent.targets[1])>>
    /\ ti' = 1
    /\ pc' = "loop"
    /\ UNCHANGED <<error, fs_lines, cga, cfs, omc>>

(***************************************************************************)
(* One pass of the while loop that ends before the read: after positioning *)
(* the window is empty (start > end).                                      *)
(***************************************************************************)
Positioned == Positioning(agent, Top.next_more_from)

\* "if next_more_from is not None" with next_more_from never assigned.
SkipRaise ==
    /\ pc = "loop"
    /\ Positioned.start_line > Positioned.end_line
    /\ Positioned.nmf.tag = "unbound"
    /\ pc' = "raised"
    /\ error' = "UnboundLocalError"
    /\ UNCHANGED <<agent, stack, ti, fs_lines, hist, cga, cfs, omc>>

Resumed(p) ==
    [agent EXCEPT !.start_line = IF p.nmf.tag = "int" THEN p.nmf.val + 1
                                 ELSE p.start_line,
                  !.end_line = p.end_line]

\* start is beyond the upper limit: break.
SkipBreak ==
    /\ pc = "loop"
    /\ Positioned.start_line > Positioned.end_line
    /\ Positioned.nmf.tag /= "unbound"
    /\ LET a == Resumed(Positioned)
       IN  /\ a.start_line > a.end_line_limit
           /\ agent' = a
           /\ stack' = SetTop(LoopExit([Top EXCEPT !.next_more_from = Positioned.nmf], a))
    /\ pc' = "recurse"
    /\ hist' = [hist EXCEPT !.adjusted = TRUE, !.over = TRUE]
    /\ UNCHANGED <<error, ti, fs_lines, cga, cfs, omc>>

\* _next_more(30); continue.
SkipContinue ==
    /\ pc = "loop"
    /\ Positioned.start_line > Positioned.end_line
    /\ Positioned.nmf.tag /= "unbound"
    /\ LET a == Resumed(Positioned)
       IN  /\ a.start_line <= a.end_line_limit
           /\ agent' = NextMore(a, MoreLines)
    /\ stack' = SetTop([Top EXCEPT !.next_more_from = Positioned.nmf])
    /\ pc' = "loop"
    /\ hist' = [hist EXCEPT !.adjusted = TRUE]
    /\ UNCHANGED <<error, ti, fs_lines, cga, cfs, omc>>

(***************************************************************************)
(* One pass of the while loop up to the oracle call: positioning, the read *)
(* of the window, the prompt.                                              *)
(***************************************************************************)
Request ==
    /\ pc = "loop"
    /\ Positioned.start_line <= Positioned.end_line
    /\ ReadOK(Positioned.start_line, Positioned.end_line, fs_lines)
    /\ agent' = [agent EXCEPT !.start_line = Positioned.start_line,
                              !.end_line = Positioned.end_line]
    /\ stack' = SetTop([Top EXCEPT !.next_more_from = Positioned.nmf])
    /\ pc' = "await"
    /\ hist' = [hist EXCEPT
                  !.windows = Append(@, [start_line |-> Positioned.start_line,
                                         end_line |-> Positioned.end_line,
                                         omitted_lines |-> agent.omitted_lines,
                                         lower |-> agent.start_line_limit,
                                         upper |-> agent.end_line_limit,
                                         retry |-> hist.pending,
                                         after_retry |-> hist.retried]),
                  !.pending = NoRetry,
                  !.adjusted = @ \/ Positioned.start_line /= agent.start_line
                                 \/ Positioned.end_line /= agent.end_line]
    /\ UNCHANGED <<error, ti, fs_lines, cga, cfs, omc>>

\* The read raises ValueError: the window is not inside the document.
RequestRaise ==
    /\ pc = "loop"
    /\ Positioned.start_line <= Positioned.end_line
    /\ ~ReadOK(Positioned.start_line, Positioned.end_line, fs_lines)
    /\ agent' = [agent EXCEPT !.start_line = Positioned.start_line,
                              !.end_line = Positioned.end_line]
    /\ stack' = SetTop([Top EXCEPT !.next_more_from = Positioned.nmf])
    /\ pc' = "raised"
    /\ error' = "ValueError"
    /\ UNCHANGED <<ti, fs_lines, hist, cga, cfs, omc>>

(***************************************************************************)
(* The rest of the pass: the oracle's response, _handle_actions, and the   *)
(* termination / advancement test.                                         *)
(***************************************************************************)
Handled(resp) == HandleActions(agent, resp, 1)

\* json.loads rejects the text: JSONDecodeError.
RespondParseRaise ==
    /\ pc = "await"
    /\ \E content \in Completions :
          /\ LlmJson(content).raised
          /\ hist' = Answered(hist, content)
    /\ pc' = "raised"
    /\ error' = "JSONDecodeError"
    /\ UNCHANGED <<agent, stack, ti, fs_lines, cga, cfs, omc>>

\* An action name that is not registered: ValueError.
RespondRaise ==
    /\ pc = "await"
    /\ \E content \in Completions :
          LET resp == LlmJson(content).actions
          IN  /\ ~LlmJson(content).raised
              /\ Handled(resp).raised
              /\ agent' = Handled(resp).agent
              /\ hist' = Answered(AfterResponse(hist, agent, resp,
                                                Handled(resp).agent), content)
    /\ pc' = "raised"
    /\ error' = "ValueError"
    /\ UNCHANGED <<stack, ti, fs_lines, cga, cfs, omc>>

\* "if self._end_line >= self._end_line_limit: break"
RespondBreak ==
    /\ pc = "await"
    /\ \E content \in Completions :
          LET resp == LlmJson(content).actions
              a == Handled(resp).agent
          IN  /\ ~LlmJson(content).raised
              /\ ~Handled(resp).raised
              /\ a.end_line >= a.end_line_limit
              /\ agent' = a
              /\ stack' = SetTop(LoopExit(Top, a))
              /\ hist' = [Answered(AfterResponse(hist, agent, resp, a), content)
                            EXCEPT !.over = TRUE]
    /\ pc' = "recurse"
    /\ UNCHANGED <<error, ti, fs_lines, cga, cfs, omc>>

\* No retry_with among the actions: _next_more(30).
RespondAdvance ==
    /\ pc = "await"
    /\ \E content \in Completions :
          LET resp == LlmJson(content).actions
              a == Handled(resp).agent
          IN  /\ ~LlmJson(content).raised
              /\ ~Handled(resp).raised
              /\ a.end_line < a.end_line_limit
              /\ "retry_with" \notin Names(resp)
              /\ agent' = NextMore(a, MoreLines)
              /\ hist' = Answered(AfterResponse(hist, agent, resp, a), content)
    /\ pc' = "loop"
    /\ UNCHANGED <<stack, error, ti, fs_lines, cga, cfs, omc>>

\* A retry_with among the actions: the window it set is kept for the next pass.
RespondRetry ==
    /\ pc = "await"
    /\ \E content \in Completions :
          LET resp == LlmJson(content).actions
              a == Handled(resp).agent
          IN  /\ ~LlmJson(content).raised
              /\ ~Handled(resp).raised
              /\ a.end_line < a.end_line_limit
              /\ "retry_with" \in Names(resp)
              /\ agent' = a
              /\ hist' = Answered(AfterResponse(hist, agent, resp, a), content)
    /\ pc' = "loop"
    /\ UNCHANGED <<stack, error, ti, fs_lines, cga, cfs, omc>>

(***************************************************************************)
(* The children part of _start_loop.                                       *)
(***************************************************************************)
Children(f) == TargetDefs[f.target].children

\* The next (result, child_target) of the two for loops: _start_loop(child_target).
Descend ==
    /\ pc = "recurse"
    /\ Children(Top) /= <<>>
    /\ Top.ri <= Len(Top.target_found)
    /\ LET f == Top
           result == f.target_found[f.ri]
           child == Children(f)[f.ci]
           lim == ChildLimits(agent.heap[result].data, f.old_end_lines)
           a1 == IF f.ci = 1 THEN [agent EXCEPT !.current_parent_found = result]
                 ELSE agent
           a2 == [a1 EXCEPT !.current_target = child,
                            !.start_line_limit = lim.lower,
                            !.end_line_limit = lim.upper,
                            !.blacked_lines = <<>>]
           g == IF f.ci < Len(Children(f)) THEN [f EXCEPT !.ci = @ + 1]
                ELSE [f EXCEPT !.ri = @ + 1, !.ci = 1]
       IN  /\ agent' = StartLoop(a2, child)
           /\ stack' = Append(SetTop(g), NewFrame(child))
           /\ hist' = [LevelStart(hist, a2, child) EXCEPT
                         !.recursed = Append(@, result)]
    /\ pc' = "loop"
    /\ UNCHANGED <<error, ti, fs_lines, cga, cfs, omc>>

\* The end of _start_loop restoring the limits but not the blacked ranges.
RestoredLimitsOnly(f) ==
    IF Children(f) /= <<>>
    THEN [agent EXCEPT !.current_parent_found = None,
                       !.start_line_limit = f.old_start_lines,
                       !.end_line_limit = f.old_end_lines]
    ELSE agent

\* The end of _start_loop: the saved limits and blacked ranges are restored
\* when the target has children.
Restored(f) ==
    IF Children(f) /= <<>>
    THEN [agent EXCEPT !.current_parent_found = None,
                       !.start_line_limit = f.old_start_lines,
                       !.end_line_limit = f.old_end_lines,
                       !.blacked_lines = f.old_blacked_lines]
    ELSE agent

LoopDone ==
    /\ pc = "recurse"
    /\ Children(Top) = <<>> \/ Top.ri > Len(Top.target_found)

\* _start_loop(child_target) returns into the for loops of its caller.
ReturnToParent ==
    /\ LoopDone
    /\ Len(stack) > 1
    /\ agent' = Restored(Top)
    /\ stack' = SubSeq(stack, 1, Len(stack) - 1)
    /\ pc' = "recurse"
    /\ UNCHANGED <<error, ti, fs_lines, hist, cga, cfs, omc>>

\* _start_loop(target) returns into run: the next target of self.targets.
NextTarget ==
    /\ LoopDone
    /\ Len(stack) = 1
    /\ ti < Len(agent.targets)
    /\ LET a == [Restored(Top) EXCEPT !.current_target = agent.targets[ti + 1]]
       IN  /\ agent' = StartLoop(a, agent.targets[ti + 1])
           /\ hist' = LevelStart(hist, a, agent.targets[ti + 1])
    /\ stack' = <<NewFrame(agent.targets[ti + 1])>>
    /\ ti' = ti + 1
    /\ pc' = "loop"
    /\ UNCHANGED <<error, fs_lines, cga, cfs, omc>>

\* run returns self._found.
Finish ==
    /\ LoopDone
    /\ Len(stack) = 1
    /\ ti = Len(agent.targets)
    /\ agent' = Restored(Top)
    /\ stack' = <<>>
    /\ pc' = "returned"
    /\ UNCHANGED <<error, ti, fs_lines, hist, cga, cfs, omc>>

Next ==
    \/ Run
    \/ SkipRaise
    \/ SkipBreak
    \/ SkipContinue
    \/ Request
    \/ RequestRaise
    \/ RespondParseRaise
    \/ RespondRaise
    \/ RespondBreak
    \/ RespondAdvance
    \/ RespondRetry
    \/ Descend
    \/ ReturnToParent
    \/ NextTarget
    \/ Finish

Spec == Init /\ [][Next]_vars

(***************************************************************************)
(* The same run on the deep target list.                                   *)
(***************************************************************************)
DeepDocSizes == {15}

InitDeep ==
    /\ fs_lines \in DeepDocSizes
    /\ agent = [targets |-> DeepTargets,
                start_line |-> None,
                end_line |-> None,
                end_line_limit |-> None,
                start_line_limit |-> 1,
                omitted_lines |-> "",
                same_level_targets_overlap |-> FALSE,
                found |-> <<>>,
                current_parent_found |-> None,
                blacked_lines |-> <<>>,
                current_target |-> "",
                actions |-> {},
                found_schema |-> "",
                heap |-> <<>>]
    /\ stack = <<>>
    /\ pc = "init"
    /\ error = ""
    /\ ti = 0
    /\ hist = [windows |-> <<>>, pending |-> NoRetry, retried |-> FALSE,
               adjusted |-> FALSE, over |-> FALSE, target |-> "",
               lower |-> 0, upper |-> 0, retries |-> 0,
               origin |-> <<>>, recursed |-> <<>>,
               last |-> [parses |-> TRUE, names |-> <<>>, more |-> FALSE]]
    /\ cga = CallGraphAgentNew(<<>>, 0)
    /\ cfs = CachedLocalFileSystemNew(NoFiles)
    /\ omc = NoCall

SpecDeep == InitDeep /\ [][Next]_vars

(***************************************************************************)
(* The call graph of cga.agents.callgraph.callgraph_agent.CallGraphAgent.  *)
(* A node is a CallGraphNode, an edge a CallGraphEdge (cga/types.py).      *)
(***************************************************************************)
MaxNodeReports == 2   \* found_target actions the oracle returns in one run
MaxCalls == 2         \* record_function_call actions the oracle returns in one run
MaxConcat == 1        \* concat_more actions the oracle returns in one run

FlatInitialEnd == 30  \* cga/doc_agent.py: self._end_line = 30
FlatMoreLines == 30   \* cga/doc_agent.py: self._next_more(30)

\* The files of a run, and the line count of each of them.
FileLists == {<<"/a.py">>, <<"/a.py", "/b.py">>}
CgDocSizes == {4, 35}

\* What the oracle reports in found_target (function_name, start_line,
\* end_line; file is the document of the request, or is left out) ...
NodeReports ==
    {[function_name |-> "foo", start_line |-> 1, end_line |-> 2, has_file |-> TRUE],
     [function_name |-> "bar", start_line |-> 3, end_line |-> 4, has_file |-> TRUE],
     [function_name |-> "bar", start_line |-> 3, end_line |-> 4, has_file |-> FALSE]}

\* ... in concat_more (lines) ...
ConcatInputs == {2}

\* ... and in record_function_call (name, file_line).
CallReports ==
    {[name |-> "bar", file_line |-> 2],
     [name |-> "baz", file_line |-> 2]}

\* CallGraphNode.id
NodeId(n) == n.loc.file \o ":" \o ToString(n.loc.line_start) \o ":" \o n.name

\* target_map_fn of CallGraphAgent.run: target['file'] raises KeyError when
\* the oracle left the optional field out.
TargetMapFn(target) ==
    [name |-> target.function_name,
     loc  |-> [file       |-> target.file,
               line_start |-> target.start_line,
               line_end   |-> target.end_line]]

(***************************************************************************)
(* The DocAgent of cga/doc_agent.py, the class whose constructor takes     *)
(* target_def, target_schema and target_map_fn.                            *)
(***************************************************************************)
FlatDocAgentNew ==
    [targets      |-> <<>>,
     current_file |-> "",
     start_line   |-> 1,
     end_line     |-> FlatInitialEnd,
     max_lines    |-> None,
     actions      |-> {}]

\* DocAgent.run up to the while loop.
FlatRunStart(d, file, lines) ==
    [d EXCEPT !.actions = @ \cup {"found_target", "concat_more"},
              !.current_file = file,
              !.max_lines = lines,
              !.end_line = Min(d.end_line, lines)]

FlatConcatMore(d, lines) == [d EXCEPT !.end_line = @ + lines]

FlatNextMore(d, lines) ==
    LET s == d.end_line + 1
    IN  [d EXCEPT !.start_line = s, !.end_line = Min(s + lines, d.max_lines)]

FlatFoundTarget(d, kw) == [d EXCEPT !.targets = Append(@, TargetMapFn(kw))]

\* Agent._handle_actions on the DocAgent's registry.
RECURSIVE FlatHandleActions(_, _, _)
FlatHandleActions(d, actions, i) ==
    IF i > Len(actions) THEN [doc_agent |-> d, raised |-> ""]
    ELSE IF actions[i].name \notin d.actions
    THEN [doc_agent |-> d, raised |-> "ValueError"]
    ELSE IF actions[i].name = "concat_more"
    THEN FlatHandleActions(FlatConcatMore(d, actions[i].input.lines), actions, i + 1)
    ELSE IF ~actions[i].input.has_file
    THEN [doc_agent |-> d, raised |-> "KeyError"]
    ELSE FlatHandleActions(FlatFoundTarget(d, actions[i].input), actions, i + 1)

\* The oracle's responses to a node discovery request on document file.
NodeOracleActions(file) ==
    {[name |-> "found_target",
      input |-> [function_name |-> r.function_name, start_line |-> r.start_line,
                 end_line |-> r.end_line, has_file |-> r.has_file, file |-> file,
                 lines |-> 0]] : r \in NodeReports}
    \cup {[name |-> "concat_more",
           input |-> [function_name |-> "", start_line |-> 0, end_line |-> 0,
                      has_file |-> FALSE, file |-> "", lines |-> l]] :
             l \in ConcatInputs}
    \cup {[name |-> "unknown_action",
           input |-> [function_name |-> "", start_line |-> 0, end_line |-> 0,
                      has_file |-> FALSE, file |-> "", lines |-> 0]]}

\* An action that ends the handling of its response with an error, or that
\* widens the window, comes last in the response.
NodeResponses ==
    {r \in SeqsUpTo(NodeOracleActions(cga.doc_agent.current_file), MaxActions) :
        /\ Count(r, "found_target") <= MaxNodeReports - Len(cga.reports)
        /\ Count(r, "concat_more") <= MaxConcat - cga.concats
        /\ \A k \in 1..(Len(r) - 1) :
              r[k].name = "found_target" /\ r[k].input.has_file}

\* The found_target inputs of a response, in order.
ReportsOf(resp) ==
    LET f == SelectSeq(resp, LAMBDA a : a.name = "found_target")
    IN  [k \in DOMAIN f |-> f[k].input]

(***************************************************************************)
(* CallGraphAgent._extract_calls_from_func: the edges of the calls the     *)
(* oracle reported for func, resolved by name against the node list.       *)
(***************************************************************************)
Matches(nodes, name) == {k \in DOMAIN nodes : nodes[k].name = name}

\* The resolution taking the last node of that name.
LastMatch(nodes, name) ==
    IF Matches(nodes, name) = {} THEN None
    ELSE CHOOSE k \in Matches(nodes, name) : \A l \in Matches(nodes, name) : l <= k

\* next((n for n in self._graph.nodes if n.name == callee_name), None)
FirstMatch(nodes, name) ==
    IF Matches(nodes, name) = {} THEN None
    ELSE CHOOSE k \in Matches(nodes, name) : \A l \in Matches(nodes, name) : k <= l

\* The edge located in the file of the callee.
EdgeAtCalleeFile(func, callee_node, call_line) ==
    [caller_id  |-> NodeId(func),
     callee_id  |-> NodeId(callee_node),
     attributes |-> [loc |-> [file       |-> callee_node.loc.file,
                              line_start |-> call_line,
                              line_end   |-> call_line]]]

\* CallGraphEdge(caller_id=func.id(), callee_id=callee_node.id(), ...)
Edge(func, callee_node, call_line) ==
    [caller_id  |-> NodeId(func),
     callee_id  |-> NodeId(callee_node),
     attributes |-> [loc |-> [file       |-> func.loc.file,
                              line_start |-> call_line,
                              line_end   |-> call_line]]]

RECURSIVE ExtractedEdgesUntilUnmatched(_, _, _, _)
RECURSIVE ExtractedEdges(_, _, _, _)

\* The loop leaving at the first reported name that no node carries.
ExtractedEdgesUntilUnmatched(nodes, func, actions, i) ==
    IF i > Len(actions) THEN <<>>
    ELSE LET k == IF actions[i].name = "record_function_call"
                  THEN FirstMatch(nodes, actions[i].input.name)
                  ELSE None
         IN  IF k /= None
             THEN <<Edge(func, nodes[k], actions[i].input.file_line)>>
                      \o ExtractedEdgesUntilUnmatched(nodes, func, actions, i + 1)
             ELSE <<>>

\* The for loop over zip(actions, results), from the i-th action on.
ExtractedEdges(nodes, func, actions, i) ==
    IF i > Len(actions) THEN <<>>
    ELSE LET k == IF actions[i].name = "record_function_call"
                  THEN FirstMatch(nodes, actions[i].input.name)
                  ELSE None
             rest == ExtractedEdges(nodes, func, actions, i + 1)
         IN  IF k /= None
             THEN <<Edge(func, nodes[k], actions[i].input.file_line)>> \o rest
             ELSE rest

\* The oracle's responses to an edge discovery request.
CallOracleActions ==
    {[name |-> "record_function_call", input |-> c] : c \in CallReports}
    \cup {[name |-> "unknown_action", input |-> [name |-> "", file_line |-> 0]]}

CallResponses ==
    {r \in SeqsUpTo(CallOracleActions, MaxActions) :
        /\ Count(r, "record_function_call") <= MaxCalls - Len(cga.calls)
        /\ \A k \in 1..(Len(r) - 1) : r[k].name = "record_function_call"}

\* The record_function_call inputs of a response for the ni-th node, in order.
CallsOf(resp, ni) ==
    LET f == SelectSeq(resp, LAMBDA a : a.name = "record_function_call")
    IN  [k \in DOMAIN f |-> [caller |-> ni, name |-> f[k].input.name,
                             file_line |-> f[k].input.file_line]]

(***************************************************************************)
(* CallGraphAgent.run.  The DocAgent it constructs is called with          *)
(* target_def, target_schema and target_map_fn: the class imported at line *)
(* 3 of callgraph_agent.py (cga.agents.doc.doc_agent) takes targets and    *)
(* rejects the call; the class of cga/doc_agent.py, which the module       *)
(* cga.callgraph_agent of cga_cli/main.py is written against, accepts it.  *)
(***************************************************************************)
ConstructRaise ==
    /\ cga.pc = "init"
    /\ cga' = [cga EXCEPT !.pc = "raised", !.error = "TypeError"]
    /\ UNCHANGED <<agent, stack, pc, error, ti, fs_lines, hist, cfs, omc>>

Construct ==
    /\ cga.pc = "init"
    /\ cga' = [cga EXCEPT !.pc = "files", !.doc_agent = FlatDocAgentNew,
                          !.all_functions = <<>>, !.fi = 1]
    /\ UNCHANGED <<agent, stack, pc, error, ti, fs_lines, hist, cfs, omc>>

\* "for file in files: functions = doc_agent.run(file)", up to the while loop.
FlatRun ==
    /\ cga.pc = "files"
    /\ cga.fi <= Len(cga.files)
    /\ cga' = [cga EXCEPT !.pc = "scan",
                          !.doc_agent = FlatRunStart(@, cga.files[cga.fi], cga.lines)]
    /\ UNCHANGED <<agent, stack, pc, error, ti, fs_lines, hist, cfs, omc>>

\* One pass of the while loop of DocAgent.run up to the oracle call.
FlatRequest ==
    /\ cga.pc = "scan"
    /\ LET d == cga.doc_agent
       IN  IF ReadOK(d.start_line, d.end_line, d.max_lines)
           THEN cga' = [cga EXCEPT !.pc = "scan_await"]
           ELSE cga' = [cga EXCEPT !.pc = "raised", !.error = "ValueError"]
    /\ UNCHANGED <<agent, stack, pc, error, ti, fs_lines, hist, cfs, omc>>

FlatHandled(resp) == FlatHandleActions(cga.doc_agent, resp, 1)

\* An unregistered action name (ValueError), a found_target without file (KeyError).
FlatRespondRaise ==
    /\ cga.pc = "scan_await"
    /\ \E resp \in NodeResponses :
          /\ FlatHandled(resp).raised /= ""
          /\ cga' = [cga EXCEPT !.pc = "raised",
                                !.error = FlatHandled(resp).raised,
                                !.doc_agent = FlatHandled(resp).doc_agent]
    /\ UNCHANGED <<agent, stack, pc, error, ti, fs_lines, hist, cfs, omc>>

\* "if self._end_line >= self._max_lines: break", "return self.targets" and
\* "all_functions.extend(functions)".
FlatRespondBreak ==
    /\ cga.pc = "scan_await"
    /\ \E resp \in NodeResponses :
          LET d == FlatHandled(resp).doc_agent
          IN  /\ FlatHandled(resp).raised = ""
              /\ d.end_line >= d.max_lines
              /\ cga' = [cga EXCEPT !.pc = "files",
                                    !.doc_agent = d,
                                    !.all_functions = @ \o d.targets,
                                    !.fi = @ + 1,
                                    !.reports = @ \o ReportsOf(resp)]
    /\ UNCHANGED <<agent, stack, pc, error, ti, fs_lines, hist, cfs, omc>>

\* No concat_more among the actions: _next_more(30).
FlatRespondAdvance ==
    /\ cga.pc = "scan_await"
    /\ \E resp \in NodeResponses :
          LET d == FlatHandled(resp).doc_agent
          IN  /\ FlatHandled(resp).raised = ""
              /\ d.end_line < d.max_lines
              /\ "concat_more" \notin Names(resp)
              /\ cga' = [cga EXCEPT !.pc = "scan",
                                    !.doc_agent = FlatNextMore(d, FlatMoreLines),
                                    !.reports = @ \o ReportsOf(resp)]
    /\ UNCHANGED <<agent, stack, pc, error, ti, fs_lines, hist, cfs, omc>>

\* A concat_more among the actions: the window it widened is read next.
FlatRespondConcat ==
    /\ cga.pc = "scan_await"
    /\ \E resp \in NodeResponses :
          LET d == FlatHandled(resp).doc_agent
          IN  /\ FlatHandled(resp).raised = ""
              /\ d.end_line < d.max_lines
              /\ "concat_more" \in Names(resp)
              /\ cga' = [cga EXCEPT !.pc = "scan",
                                    !.doc_agent = d,
                                    !.reports = @ \o ReportsOf(resp),
                                    !.concats = @ + 1]
    /\ UNCHANGED <<agent, stack, pc, error, ti, fs_lines, hist, cfs, omc>>

\* "self._graph.nodes = all_functions" after the last file.
StartEdges ==
    /\ cga.pc = "files"
    /\ cga.fi > Len(cga.files)
    /\ cga' = [cga EXCEPT !.pc = "edges", !.graph.nodes = cga.all_functions,
                          !.ni = 1]
    /\ UNCHANGED <<agent, stack, pc, error, ti, fs_lines, hist, cfs, omc>>

\* _extract_calls_from_func(func) up to the oracle call: the read of the span.
EdgeRequest ==
    /\ cga.pc = "edges"
    /\ cga.ni <= Len(cga.all_functions)
    /\ LET func == cga.all_functions[cga.ni]
       IN  IF ReadOK(func.loc.line_start, func.loc.line_end, cga.lines)
           THEN cga' = [cga EXCEPT !.pc = "edge_await"]
           ELSE cga' = [cga EXCEPT !.pc = "raised", !.error = "ValueError"]
    /\ UNCHANGED <<agent, stack, pc, error, ti, fs_lines, hist, cfs, omc>>

\* _handle_actions raises on an unregistered name: no edge of func is kept.
EdgeRespondRaise ==
    /\ cga.pc = "edge_await"
    /\ \E resp \in CallResponses :
          /\ \E k \in DOMAIN resp : resp[k].name \notin cga.actions
          /\ cga' = [cga EXCEPT !.pc = "raised", !.error = "ValueError"]
    /\ UNCHANGED <<agent, stack, pc, error, ti, fs_lines, hist, cfs, omc>>

\* The edges of func are appended: self._graph.edges.extend(edges).
EdgeRespond ==
    /\ cga.pc = "edge_await"
    /\ \E resp \in CallResponses :
          /\ \A k \in DOMAIN resp : resp[k].name \in cga.actions
          /\ cga' = [cga EXCEPT
                        !.pc = "edges",
                        !.graph.edges = @ \o ExtractedEdges(cga.graph.nodes,
                                             cga.all_functions[cga.ni], resp, 1),
                        !.calls = @ \o CallsOf(resp, cga.ni),
                        !.ni = @ + 1]
    /\ UNCHANGED <<agent, stack, pc, error, ti, fs_lines, hist, cfs, omc>>

\* "return self._graph"
ReturnGraph ==
    /\ cga.pc = "edges"
    /\ cga.ni > Len(cga.all_functions)
    /\ cga' = [cga EXCEPT !.pc = "returned"]
    /\ UNCHANGED <<agent, stack, pc, error, ti, fs_lines, hist, cfs, omc>>

InitCG ==
    /\ \E files \in FileLists, lines \in CgDocSizes :
          cga = CallGraphAgentNew(files, lines)
    /\ cfs = CachedLocalFileSystemNew(NoFiles)
    /\ omc = NoCall
    /\ fs_lines = CHOOSE n \in DocSizes : \A m \in DocSizes : n <= m
    /\ agent = [targets |-> Targets,
                start_line |-> None,
                end_line |-> None,
                end_line_limit |-> None,
                start_line_limit |-> 1,
                omitted_lines |-> "",
                same_level_targets_overlap |-> FALSE,
                found |-> <<>>,
                current_parent_found |-> None,
                blacked_lines |-> <<>>,
                current_target |-> "",
                actions |-> {},
                found_schema |-> "",
                heap |-> <<>>]
    /\ stack = <<>>
    /\ pc = "init"
    /\ error = ""
    /\ ti = 0
    /\ hist = [windows |-> <<>>, pending |-> NoRetry, retried |-> FALSE,
               adjusted |-> FALSE, over |-> FALSE, target |-> "",
               lower |-> 0, upper |-> 0, retries |-> 0,
               origin |-> <<>>, recursed |-> <<>>,
               last |-> [parses |-> TRUE, names |-> <<>>, more |-> FALSE]]

NextCG ==
    \/ ConstructRaise
    \/ Construct
    \/ FlatRun
    \/ FlatRequest
    \/ FlatRespondRaise
    \/ FlatRespondBreak
    \/ FlatRespondAdvance
    \/ FlatRespondConcat
    \/ StartEdges
    \/ EdgeRequest
    \/ EdgeRespondRaise
    \/ EdgeRespond
    \/ ReturnGraph

SpecCG == InitCG /\ [][NextCG]_vars

(***************************************************************************)
(* The operations of CachedLocalFileSystem on an instance fs.  Each gives  *)
(* the instance after the call and what the call returns or raises.        *)
(***************************************************************************)
\* read_file: the cached text, else the text on the disk, which is cached;
\* open() raises FileNotFoundError when the disk has no such file.
ReadFile(fs, path) ==
    IF fs.cache[path].present
    THEN [fs |-> fs, raised |-> "", text |-> fs.cache[path].text]
    ELSE IF fs.disk[path].present
    THEN [fs |-> [fs EXCEPT !.cache[path] = fs.disk[path]], raised |-> "",
          text |-> fs.disk[path].text]
    ELSE [fs |-> fs, raised |-> "FileNotFoundError", text |-> <<>>]

\* lines[i] of Python for an index i in -n .. n-1.
LineAt(lines, i) == IF i >= 0 THEN lines[i + 1] ELSE lines[Len(lines) + i + 1]

\* read_file_with_lines without omitted lines and line numbers:
\* [lines[i] for i in range(start_line - 1, end_line)], ValueError when an
\* index is out of range.
ReadFileWithLines(fs, path, start_line, end_line) ==
    LET r == ReadFile(fs, path)
        lines == r.text
        n == IF end_line >= start_line THEN end_line - start_line + 1 ELSE 0
    IN  IF r.raised /= "" THEN r
        ELSE IF ~ReadOK(start_line, end_line, Len(lines))
        THEN [fs |-> r.fs, raised |-> "ValueError", text |-> <<>>]
        ELSE [fs |-> r.fs, raised |-> "",
              text |-> [k \in 1..n |-> LineAt(lines, start_line - 2 + k)]]

\* write_file that leaves the cache as it is.
WriteFileUncached(fs, path, content, in_memory) ==
    IF in_memory THEN fs ELSE [fs EXCEPT !.disk[path] = Present(content)]

\* write_file: the disk unless in_memory, the cache always.
WriteFile(fs, path, content, in_memory) ==
    IF in_memory
    THEN [fs EXCEPT !.cache[path] = Present(content)]
    ELSE [fs EXCEPT !.disk[path] = Present(content),
                    !.cache[path] = Present(content)]

\* get_file_metadata: the number of lines of read_file(path).
GetFileMetadata(fs, path) ==
    LET r == ReadFile(fs, path)
    IN  [fs |-> r.fs, raised |-> r.raised, lines |-> Len(r.text)]

\* path.startswith(white_path)
StartsWith(path, white_path) ==
    /\ Len(white_path) <= Len(path)
    /\ \A k \in DOMAIN white_path : path[k] = white_path[k]

\* _is_in_white_list
IsInWhiteList(fs, path) ==
    IF fs.white_list /= {}
    THEN \E white_path \in fs.white_list : StartsWith(path, white_path)
    ELSE TRUE

\* os.path.isdir and the files os.listdir finds in a directory.
IsDir(path) == path \in Dirs
FilesIn(fs, directory) ==
    {f \in FilePaths : /\ fs.disk[f].present
                       /\ SubSeq(f, 1, Len(f) - 1) = directory}

\* list_files: the argument itself when it is no directory, else the files
\* of the directory that are in the white list.
ListFiles(fs, directory) ==
    IF ~IsDir(directory) THEN {directory}
    ELSE {f \in FilesIn(fs, directory) : IsInWhiteList(fs, f)}

\* The history after a call that read path: the text the disk holds is the
\* one seen when nothing was seen of path before.
SeenAtRead(fs, path) ==
    IF ~fs.seen[path].present /\ fs.disk[path].present
    THEN [fs EXCEPT !.seen[path] = fs.disk[path]]
    ELSE fs

(***************************************************************************)
(* The calls on the instance, and the disk changing behind it.             *)
(***************************************************************************)
WindowArgs == {<<1, 1>>, <<1, 3>>, <<2, 3>>, <<3, 2>>, <<0, 1>>, <<2, 4>>}
WhitePaths == {<<"allowed">>, <<"other", "b.py">>}

\* Another process writes the file.
DiskChanges ==
    /\ \E path \in FilePaths, content \in Texts :
          /\ cfs.disk[path] /= Present(content)
          /\ cfs' = [cfs EXCEPT !.disk[path] = Present(content), !.last = NoResult]
    /\ UNCHANGED <<agent, stack, pc, error, ti, fs_lines, hist, cga, omc>>

CallReadFile ==
    /\ \E path \in FilePaths :
          LET r == ReadFile(SeenAtRead(cfs, path), path)
          IN  cfs' = [r.fs EXCEPT !.last = [NoResult EXCEPT !.op = "read_file",
                                                           !.path = path,
                                                           !.raised = r.raised,
                                                           !.text = r.text]]
    /\ UNCHANGED <<agent, stack, pc, error, ti, fs_lines, hist, cga, omc>>

CallReadFileWithLines ==
    /\ \E path \in FilePaths, w \in WindowArgs :
          LET r == ReadFileWithLines(SeenAtRead(cfs, path), path, w[1], w[2])
          IN  cfs' = [r.fs EXCEPT !.last = [NoResult EXCEPT
                                              !.op = "read_file_with_lines",
                                              !.path = path,
                                              !.start_line = w[1],
                                              !.end_line = w[2],
                                              !.raised = r.raised,
                                              !.text = r.text]]
    /\ UNCHANGED <<agent, stack, pc, error, ti, fs_lines, hist, cga, omc>>

CallWriteFile ==
    /\ \E path \in FilePaths, content \in Texts, in_memory \in BOOLEAN :
          cfs' = [WriteFile(cfs, path, content, in_memory) EXCEPT
                    !.seen[path] = Present(content),
                    !.last = [NoResult EXCEPT !.op = "write_file", !.path = path]]
    /\ UNCHANGED <<agent, stack, pc, error, ti, fs_lines, hist, cga, omc>>

CallGetFileMetadata ==
    /\ \E path \in FilePaths :
          LET r == GetFileMetadata(SeenAtRead(cfs, path), path)
          IN  cfs' = [r.fs EXCEPT !.last = [NoResult EXCEPT
                                              !.op = "get_file_metadata",
                                              !.path = path,
                                              !.raised = r.raised,
                                              !.lines = r.lines]]
    /\ UNCHANGED <<agent, stack, pc, error, ti, fs_lines, hist, cga, omc>>

CallAddWhiteList ==
    /\ \E path \in WhitePaths :
          cfs' = [cfs EXCEPT !.white_list = @ \cup {path},
                             !.last = [NoResult EXCEPT !.op = "add_white_list",
                                                       !.path = path]]
    /\ UNCHANGED <<agent, stack, pc, error, ti, fs_lines, hist, cga, omc>>

CallListFiles ==
    /\ \E directory \in Dirs \cup FilePaths :
          cfs' = [cfs EXCEPT !.last = [NoResult EXCEPT
                                         !.op = "list_files",
                                         !.path = directory,
                                         !.files = ListFiles(cfs, directory)]]
    /\ UNCHANGED <<agent, stack, pc, error, ti, fs_lines, hist, cga, omc>>

InitFS == Init /\ fs_lines = CHOOSE n \in DocSizes : \A m \in DocSizes : n <= m

NextFS ==
    \/ DiskChanges
    \/ CallReadFile
    \/ CallReadFileWithLines
    \/ CallWriteFile
    \/ CallGetFileMetadata
    \/ CallAddWhiteList
    \/ CallListFiles

SpecFS == InitFS /\ [][NextFS]_vars

(***************************************************************************)
(* The module-level functions of cga/utils/fs.py: parse_omitted_lines and  *)
(* omit_lines.  A string is the sequence of its characters.                *)
(***************************************************************************)
MaxSpecLen == 4     \* characters of an omitted_lines string
MaxLine == 5        \* highest line number of the lists given to omit_lines
MaxRun == 11        \* highest line number of the sets written in range notation

\* The characters of the omitted_lines strings.
Chars == {"1", "2", ",", "-", "x"}

Digits == <<"0", "1", "2", "3", "4", "5", "6", "7", "8", "9">>

DigitChars == {Digits[i] : i \in DOMAIN Digits}

DigitValue(c) == (CHOOSE i \in DOMAIN Digits : Digits[i] = c) - 1

\* str(n) of a non-negative integer: its decimal numeral.
RECURSIVE Str(_)
Str(n) == IF n < 10 THEN <<Digits[n + 1]>>
          ELSE Str(n \div 10) \o <<Digits[(n % 10) + 1]>>

\* int(s) raises ValueError unless s is a numeral (of the characters of the
\* model: no sign, blank or underscore).
IsNumeral(s) == s /= <<>> /\ \A i \in DOMAIN s : s[i] \in DigitChars

\* The digits read from the right: the value of "12" taken for 21.
RECURSIVE IntOfReversed(_)
RECURSIVE IntOf(_)
IntOfReversed(s) ==
    IF s = <<>> THEN 0 ELSE 10 * IntOfReversed(Tail(s)) + DigitValue(Head(s))

IntOf(s) ==
    IF s = <<>> THEN 0
    ELSE 10 * IntOf(SubSeq(s, 1, Len(s) - 1)) + DigitValue(s[Len(s)])

\* s.split(sep) for a one-character sep.
RECURSIVE Split(_, _)
Split(s, sep) ==
    IF \A i \in DOMAIN s : s[i] /= sep THEN <<s>>
    ELSE LET k == CHOOSE i \in DOMAIN s :
                      s[i] = sep /\ \A j \in 1..(i - 1) : s[j] /= sep
         IN  <<SubSeq(s, 1, k - 1)>> \o Split(SubSeq(s, k + 1, Len(s)), sep)

Raises(exc) == [raised |-> exc, set |-> {}]
Returns(S) == [raised |-> "", set |-> S]

\* range(int(start), int(end)) in place of range(int(start), int(end) + 1).
ParseRangeExclusive(r) ==
    IF \E i \in DOMAIN r : r[i] = "-"
    THEN LET parts == Split(r, "-")
         IN  IF Len(parts) /= 2 THEN Raises("ValueError")
             ELSE IF ~IsNumeral(parts[1]) \/ ~IsNumeral(parts[2])
             THEN Raises("ValueError")
             ELSE Returns(IntOf(parts[1])..(IntOf(parts[2]) - 1))
    ELSE IF ~IsNumeral(r) THEN Raises("ValueError")
    ELSE Returns({IntOf(r)})

(***************************************************************************)
(* The body of the for loop of parse_omitted_lines on one element r of     *)
(* ranges: "start, end = r.split('-')" raises ValueError unless the split  *)
(* gives two parts, int() raises it on a part that is no numeral.          *)
(***************************************************************************)
ParseRange(r) ==
    IF \E i \in DOMAIN r : r[i] = "-"
    THEN LET parts == Split(r, "-")
         IN  IF Len(parts) /= 2 THEN Raises("ValueError")
             ELSE IF ~IsNumeral(parts[1]) \/ ~IsNumeral(parts[2])
             THEN Raises("ValueError")
             ELSE Returns(IntOf(parts[1])..IntOf(parts[2]))
    ELSE IF ~IsNumeral(r) THEN Raises("ValueError")
    ELSE Returns({IntOf(r)})

RECURSIVE ParseRangesLenient(_, _, _)
RECURSIVE ParseRanges(_, _, _)

\* The loop passing over an element that raises.
ParseRangesLenient(ranges, i, omitted_set) ==
    IF i > Len(ranges) THEN Returns(omitted_set)
    ELSE LET r == ParseRange(ranges[i])
         IN  IF r.raised /= "" THEN ParseRangesLenient(ranges, i + 1, omitted_set)
             ELSE ParseRangesLenient(ranges, i + 1, omitted_set \cup r.set)

\* The for loop over ranges: omitted_set is updated element by element and
\* an exception leaves the function with no value.
ParseRanges(ranges, i, omitted_set) ==
    IF i > Len(ranges) THEN Returns(omitted_set)
    ELSE LET r == ParseRange(ranges[i])
         IN  IF r.raised /= "" THEN Raises(r.raised)
             ELSE ParseRanges(ranges, i + 1, omitted_set \cup r.set)

ParseOmittedLines(omitted_lines) ==
    IF omitted_lines = <<>> THEN Returns({})
    ELSE ParseRanges(Split(omitted_lines, ","), 1, {})

(***************************************************************************)
(* omit_lines.  An element of a Python tuple is an int or a str.           *)
(***************************************************************************)
PyInt(n) == [type |-> "int", int |-> n, str |-> <<>>]
PyStr(s) == [type |-> "str", int |-> 0, str |-> s]

\* sorted(omitted_lines)
RECURSIVE Sorted(_)
Sorted(S) ==
    IF S = {} THEN <<>>
    ELSE LET m == CHOOSE x \in S : \A y \in S : x <= y
         IN  <<m>> \o Sorted(S \ {m})

RECURSIVE ContinuousRanges(_, _, _, _, _)

\* Every omitted number a range of its own.
ContinuousRangesUnmerged(omitted_lines, i, start, end, omitted_ranges) ==
    [k \in DOMAIN omitted_lines |-> <<omitted_lines[k], omitted_lines[k]>>]

\* "Identify continuous ranges": the loop over omitted_lines[1:], then the
\* last range appended.
ContinuousRanges(omitted_lines, i, start, end, omitted_ranges) ==
    IF i > Len(omitted_lines) THEN Append(omitted_ranges, <<start, end>>)
    ELSE IF omitted_lines[i] = end + 1
    THEN ContinuousRanges(omitted_lines, i + 1, start, omitted_lines[i],
                          omitted_ranges)
    ELSE ContinuousRanges(omitted_lines, i + 1, omitted_lines[i],
                          omitted_lines[i],
                          Append(omitted_ranges, <<start, end>>))

\* f"[omitted lines: {a}]" and f"[omitted lines: {a}-{b}]"
RangeText(range) ==
    IF range[1] = range[2] THEN Str(range[1])
    ELSE Str(range[1]) \o <<"-">> \o Str(range[2])

OmittedInfo(range) == <<"[omitted lines: ">> \o RangeText(range) \o <<"]">>

RECURSIVE SkipLines(_, _, _, _, _)

\* The while loop of omit_lines; omitted_idx counts from 1, and current_range
\* is None when it is past the last range.
SkipLines(lines, i, omitted_ranges, omitted_idx, result) ==
    IF i > Len(lines) THEN result
    ELSE LET line_num == lines[i][1].int
             has == omitted_idx <= Len(omitted_ranges)
             current_range == IF has THEN omitted_ranges[omitted_idx]
                              ELSE <<0, 0>>
         IN  IF has /\ current_range[1] <= line_num /\ line_num <= current_range[2]
             THEN IF line_num = current_range[2]
                  THEN SkipLines(lines, i + 1, omitted_ranges, omitted_idx + 1,
                                 Append(result, <<PyInt(-1),
                                                  PyStr(OmittedInfo(current_range))>>))
                  ELSE SkipLines(lines, i + 1, omitted_ranges, omitted_idx, result)
             ELSE SkipLines(lines, i + 1, omitted_ranges, omitted_idx,
                            Append(result, lines[i]))

OmitLines(lines, omitted_set) ==
    LET omitted_lines == Sorted(omitted_set)
    IN  IF omitted_lines = <<>> THEN lines
        ELSE SkipLines(lines, 1,
                       ContinuousRanges(omitted_lines, 2, omitted_lines[1],
                                        omitted_lines[1], <<>>),
                       1, <<>>)

(***************************************************************************)
(* The arguments of the calls.                                             *)
(***************************************************************************)
\* make_lines of test_fs.py: the entry of line i is (i, "L<i>").
Line(i) == <<PyInt(i), PyStr(<<"L">> \o Str(i))>>

\* The lists of entries in the order of their line numbers.
LineLists ==
    {[k \in DOMAIN Sorted(S) |-> Line(Sorted(S)[k])] : S \in SUBSET (1..MaxLine)}

\* Omitted sets, with numbers before the first and after the last line.
OmittedSets == SUBSET (0..(MaxLine + 1))

\* The range notation of a set of line numbers: its maximal runs in order,
\* separated by commas.
RECURSIVE JoinRanges(_, _)
JoinRanges(ranges, i) ==
    IF i > Len(ranges) THEN <<>>
    ELSE IF i = Len(ranges) THEN RangeText(ranges[i])
    ELSE RangeText(ranges[i]) \o <<",">> \o JoinRanges(ranges, i + 1)

FormatRanges(S) ==
    IF S = {} THEN <<>>
    ELSE LET s == Sorted(S)
         IN  JoinRanges(ContinuousRanges(s, 2, s[1], s[1], <<>>), 1)

OmittedLinesStrings ==
    UNION {[1..k -> Chars] : k \in 0..MaxSpecLen}
    \cup {FormatRanges(S) : S \in SUBSET (1..MaxRun)}

ParseCall(omitted_lines) ==
    [NoCall EXCEPT !.fn = "parse_omitted_lines", !.omitted_lines = omitted_lines]

OmitCall(lines, omitted_set) ==
    [NoCall EXCEPT !.fn = "omit_lines", !.lines = lines,
                   !.omitted_set = omitted_set]

CallParseOmittedLines ==
    /\ omc.pc = "init"
    /\ omc.fn = "parse_omitted_lines"
    /\ LET r == ParseOmittedLines(omc.omitted_lines)
       IN  omc' = [omc EXCEPT !.pc = IF r.raised = "" THEN "returned" ELSE "raised",
                              !.raised = r.raised,
                              !.result_set = r.set]
    /\ UNCHANGED <<agent, stack, pc, error, ti, fs_lines, hist, cga, cfs>>

CallOmitLines ==
    /\ omc.pc = "init"
    /\ omc.fn = "omit_lines"
    /\ omc' = [omc EXCEPT !.pc = "returned",
                          !.result = OmitLines(omc.lines, omc.omitted_set)]
    /\ UNCHANGED <<agent, stack, pc, error, ti, fs_lines, hist, cga, cfs>>

InitOmit ==
    /\ omc \in {ParseCall(s) : s \in OmittedLinesStrings}
               \cup {OmitCall(l, o) : l \in LineLists, o \in OmittedSets}
    /\ cga = CallGraphAgentNew(<<>>, 0)
    /\ cfs = CachedLocalFileSystemNew(NoFiles)
    /\ fs_lines = CHOOSE n \in DocSizes : \A m \in DocSizes : n <= m
    /\ agent = [targets |-> Targets,
                start_line |-> None,
                end_line |-> None,
                end_line_limit |-> None,
                start_line_limit |-> 1,
                omitted_lines |-> "",
                same_level_targets_overlap |-> FALSE,
                found |-> <<>>,
                current_parent_found |-> None,
                blacked_lines |-> <<>>,
                current_target |-> "",
                actions |-> {},
                found_schema |-> "",
                heap |-> <<>>]
    /\ stack = <<>>
    /\ pc = "init"
    /\ error = ""
    /\ ti = 0
    /\ hist = [windows |-> <<>>, pending |-> NoRetry, retried |-> FALSE,
               adjusted |-> FALSE, over |-> FALSE, target |-> "",
               lower |-> 0, upper |-> 0, retries |-> 0,
               origin |-> <<>>, recursed |-> <<>>,
               last |-> [parses |-> TRUE, names |-> <<>>, more |-> FALSE]]

NextOmit ==
    \/ CallParseOmittedLines
    \/ CallOmitLines

SpecOmit == InitOmit /\ [][NextOmit]_vars

(***************************************************************************)
(* Properties.                                                             *)
(***************************************************************************)
ChunkSize == 30

CeilDiv(a, b) == (a + b - 1) \div b

Lines(w) == w.start_line..w.end_line

Intersect(s1, e1, s2, e2) == s1 <= e2 /\ s2 <= e1

\* The level whose windows hist holds has ended: its loop was left, or the
\* run stopped in it on the unassigned next_more_from.
LevelEnded == hist.over \/ (pc = "raised" /\ error = "UnboundLocalError")

\* A childless target, a range inside the document, no retry_with received,
\* and no window touched by a blacked range.
PlainLevel ==
    /\ hist.target /= ""
    /\ TargetDefs[hist.target].children = <<>>
    /\ 1 <= hist.lower /\ hist.lower <= hist.upper /\ hist.upper <= fs_lines
    /\ ~hist.retried
    /\ ~hist.adjusted

\* C1: for a childless target scanned over [lower_limit, upper_limit] with no
\* retry_with and no blacked overlap, the windows presented are pairwise
\* disjoint and their union is exactly lower_limit..upper_limit.  Stated for
\* the runs in which no retry_with was received at any level before.
C1_WindowsPartitionRange ==
    (LevelEnded /\ PlainLevel /\ hist.retries = 0) =>
        /\ \A i, j \in DOMAIN hist.windows :
              i < j => Lines(hist.windows[i]) \cap Lines(hist.windows[j]) = {}
        /\ UNION {Lines(hist.windows[i]) : i \in DOMAIN hist.windows}
              = hist.lower..hist.upper

\* C2: under the same conditions the scan ends after exactly
\* ceil((upper_limit - lower_limit + 1) / chunk_size) requests, each advance
\* moving the window by chunk_size lines.
C2_RequestCount ==
    (hist.over /\ PlainLevel) =>
        /\ Len(hist.windows) = CeilDiv(hist.upper - hist.lower + 1, ChunkSize)
        /\ \A i \in 1..(Len(hist.windows) - 1) :
              hist.windows[i + 1].start_line = hist.windows[i].start_line + ChunkSize

\* C3: no window presented to the oracle contains a line of a span already
\* recorded as blacked at that level (the blacked ranges of a top-level scan
\* stay recorded for the later top-level targets).  Stated for the windows
\* the scan chooses itself, in runs that received no retry_with.
C3_BlackedNeverPresented ==
    (pc = "await" /\ hist.retries = 0) =>
        \A k \in DOMAIN agent.blacked_lines :
            ~Intersect(agent.start_line, agent.end_line,
                       agent.blacked_lines[k][1], agent.blacked_lines[k][2])

\* C4: any two blacked ranges recorded at the same level do not intersect.
C4_BlackedDisjoint ==
    \A i, j \in DOMAIN agent.blacked_lines :
        i < j => ~Intersect(agent.blacked_lines[i][1], agent.blacked_lines[i][2],
                            agent.blacked_lines[j][1], agent.blacked_lines[j][2])

HasSpan(r) == r.data.has_start /\ r.data.has_end /\ ~r.data.mapped

Contained(c, p) ==
    /\ p.data.start_line <= c.data.start_line
    /\ c.data.end_line <= p.data.end_line

\* The span of Result id lies in the window it was reported from, and no
\* retry_with had been received at that level when the window was presented.
ReportedFromPlainWindow(id) ==
    /\ ~hist.origin[id].after_retry
    /\ hist.origin[id].win_start <= agent.heap[id].data.start_line
    /\ agent.heap[id].data.start_line <= agent.heap[id].data.end_line
    /\ agent.heap[id].data.end_line <= hist.origin[id].win_end

\* C5 as stated: in the returned forest every child's start_line and end_line
\* lie within its parent's start_line..end_line.
C5_ChildrenContained ==
    pc = "returned" =>
        \A p \in DOMAIN agent.heap :
            \A k \in DOMAIN agent.heap[p].children :
                Contained(agent.heap[agent.heap[p].children[k]], agent.heap[p])

\* C5 as amended: in the returned forest, a child whose span lies in the
\* window it was reported from, at a level that had received no retry_with,
\* lies within the span of its parent (when the parent's data carries one).
C5_HonestChildrenContained ==
    pc = "returned" =>
        \A p \in DOMAIN agent.heap :
            \A k \in DOMAIN agent.heap[p].children :
                LET c == agent.heap[p].children[k]
                IN  (HasSpan(agent.heap[p]) /\ ReportedFromPlainWindow(c))
                        => Contained(agent.heap[c], agent.heap[p])

C5_Witness ==
    /\ pc = "returned"
    /\ \E p \in DOMAIN agent.heap :
          \E k \in DOMAIN agent.heap[p].children :
              /\ HasSpan(agent.heap[p])
              /\ ReportedFromPlainWindow(agent.heap[p].children[k])
              /\ Contained(agent.heap[agent.heap[p].children[k]], agent.heap[p])

\* The lines a retry_with asks for are lines of the document.
InDocument(r) == 1 <= r.start_line /\ r.start_line <= r.end_line /\ r.end_line <= fs_lines

\* C6: a retry_with(start, end) in a response (for lines of the document)
\* makes the next request of the level present exactly the window start..end
\* (and there is such a request: the level does not end with the retry
\* unanswered).
C6_RetryWindowPresented ==
    /\ \A i \in DOMAIN hist.windows :
          (hist.windows[i].retry.set /\ InDocument(hist.windows[i].retry)) =>
              /\ hist.windows[i].start_line = hist.windows[i].retry.start_line
              /\ hist.windows[i].end_line = hist.windows[i].retry.end_line
    /\ (hist.over /\ hist.pending.set) => ~InDocument(hist.pending)

\* C7: for a childless target, a window that ends at the upper limit is the
\* last one presented at its level.
C7_LastWindowEndsScan ==
    (hist.target /= "" /\ TargetDefs[hist.target].children = <<>>) =>
        \A i \in 1..(Len(hist.windows) - 1) :
            hist.windows[i].end_line /= hist.windows[i].upper

\* C8 as stated: the start lines of the successive windows of a level are
\* non-decreasing.
C8_StartsNonDecreasing ==
    \A i \in 1..(Len(hist.windows) - 1) :
        hist.windows[i].start_line <= hist.windows[i + 1].start_line

\* C8 as amended: the start lines of the successive windows of a level are
\* non-decreasing up to the first retry_with the level receives.
C8_StartsNonDecreasingBeforeRetry ==
    \A i \in 1..(Len(hist.windows) - 1) :
        (~hist.windows[i + 1].after_retry /\ ~hist.windows[i + 1].retry.set)
            => hist.windows[i].start_line <= hist.windows[i + 1].start_line

C8_Witness ==
    /\ Len(hist.windows) >= 2
    /\ ~hist.retried
    /\ hist.windows[1].start_line < hist.windows[2].start_line

Increasing(seq) == \A i, j \in DOMAIN seq : i < j => seq[i] < seq[j]

NonDecreasing(seq) == \A i, j \in DOMAIN seq : i < j => seq[i] <= seq[j]

CgEnded == cga.pc \in {"returned", "raised"}

IsPrefix(s, t) == Len(s) <= Len(t) /\ \A k \in DOMAIN s : s[k] = t[k]

\* The found_target input reporting function name at lines s..e of file.
Report(name, s, e, file) ==
    [function_name |-> name, start_line |-> s, end_line |-> e,
     has_file |-> TRUE, file |-> file, lines |-> 0]

\* The scenario of test_callgraph_agent_py_simple: one document of 4 lines,
\* "def foo(): bar()  def bar(): pass"; the oracle reports foo at 1-2 and bar
\* at 3-4, one call of bar at line 2 inside foo, and no call inside bar.
ScenarioDocument == cga.files = <<"/a.py">> /\ cga.lines = 4

ScenarioReports == <<Report("foo", 1, 2, "/a.py"), Report("bar", 3, 4, "/a.py")>>

ScenarioCalls == <<[caller |-> 1, name |-> "bar", file_line |-> 2]>>

\* What the oracle has answered so far is what the scenario scripts: all of
\* the script when the graph is returned, the answers to the requests made
\* when the run ended with an error that no answer of the oracle caused.
OracleAsScripted ==
    IF cga.pc = "returned"
    THEN cga.reports = ScenarioReports /\ cga.calls = ScenarioCalls
    ELSE /\ IsPrefix(cga.reports, ScenarioReports)
         /\ IsPrefix(cga.calls, ScenarioCalls)
         /\ cga.error \notin {"ValueError", "KeyError"}

ScenarioGraph ==
    LET foo == TargetMapFn(ScenarioReports[1])
        bar == TargetMapFn(ScenarioReports[2])
    IN  [nodes |-> <<foo, bar>>,
         edges |-> <<[caller_id  |-> "/a.py:1:foo",
                      callee_id  |-> "/a.py:3:bar",
                      attributes |-> [loc |-> [file       |-> "/a.py",
                                               line_start |-> 2,
                                               line_end   |-> 2]]]>>]

\* C11: in a returned graph every call the oracle reported for a caller node
\* F whose name is the name of a node has an edge with caller_id = id(F), the
\* id of a node of that name as callee_id and the reported line as call-site
\* line; and a run on the 4-line foo/bar document with the scripted oracle
\* ends with exactly the nodes [foo, bar] and the single edge foo -> bar at
\* line 2.
C11_EdgePerResolvedCall ==
    /\ cga.pc = "returned" =>
          \A c \in DOMAIN cga.calls :
              LET call == cga.calls[c]
              IN  Matches(cga.graph.nodes, call.name) /= {} =>
                    \E e \in DOMAIN cga.graph.edges :
                        LET edge == cga.graph.edges[e]
                        IN  /\ edge.caller_id = NodeId(cga.graph.nodes[call.caller])
                            /\ \E g \in Matches(cga.graph.nodes, call.name) :
                                  edge.callee_id = NodeId(cga.graph.nodes[g])
                            /\ edge.attributes.loc.line_start = call.file_line
    /\ (ScenarioDocument /\ CgEnded /\ OracleAsScripted) =>
          (cga.pc = "returned" /\ cga.graph = ScenarioGraph)

\* The reported calls whose name is the name of a node of the returned graph,
\* in the order of the requests and, within a response, of the reports.
ResolvedCalls ==
    SelectSeq(cga.calls, LAMBDA c : Matches(cga.graph.nodes, c.name) /= {})

\* C12: when several nodes share the reported callee name, the callee of the
\* edge is the first of them in the order of the node list.
C12_FirstMatchOnCollision ==
    cga.pc = "returned" =>
        /\ Len(cga.graph.edges) = Len(ResolvedCalls)
        /\ \A k \in DOMAIN cga.graph.edges :
              \E g \in Matches(cga.graph.nodes, ResolvedCalls[k].name) :
                  /\ \A l \in Matches(cga.graph.nodes, ResolvedCalls[k].name) : g <= l
                  /\ cga.graph.edges[k].callee_id = NodeId(cga.graph.nodes[g])

\* A returned graph with an edge to a name that two nodes of different ids
\* carry.
C12_Witness ==
    /\ cga.pc = "returned"
    /\ \E k \in DOMAIN cga.graph.edges :
          \E g, l \in Matches(cga.graph.nodes, ResolvedCalls[k].name) :
              /\ g < l
              /\ NodeId(cga.graph.nodes[g]) /= NodeId(cga.graph.nodes[l])
              /\ cga.graph.edges[k].callee_id = NodeId(cga.graph.nodes[g])

\* The calls the response just handled has added to the log.
NewCalls == SubSeq(cga'.calls, Len(cga.calls) + 1, Len(cga'.calls))

\* C13: a reported callee name that no node carries gives no edge and no
\* error.  A response whose calls were recorded, matched or not, leaves the
\* run without error and on its way to the next node, with one more edge for
\* each of its calls that a node matches; and the returned graph has exactly
\* one edge for each matched call of the run, from the caller it was reported
\* for, at the reported line, to a node of the graph.
C13_UnmatchedDropped ==
    /\ [][(cga.pc = "edge_await" /\ cga'.calls /= cga.calls) =>
            /\ cga'.pc = "edges"
            /\ cga'.error = ""
            /\ cga'.ni = cga.ni + 1
            /\ Len(cga'.graph.edges) = Len(cga.graph.edges)
                 + Cardinality({k \in DOMAIN NewCalls :
                                  Matches(cga.graph.nodes, NewCalls[k].name) /= {}})]_vars
    /\ [](cga.pc = "returned" =>
            /\ Len(cga.graph.edges) = Len(ResolvedCalls)
            /\ \A k \in DOMAIN cga.graph.edges :
                  LET edge == cga.graph.edges[k]
                      call == ResolvedCalls[k]
                  IN  /\ edge.caller_id = NodeId(cga.graph.nodes[call.caller])
                      /\ edge.attributes.loc.line_start = call.file_line
                      /\ \E g \in DOMAIN cga.graph.nodes :
                            /\ cga.graph.nodes[g].name = call.name
                            /\ edge.callee_id = NodeId(cga.graph.nodes[g]))

\* A returned graph of a run in which an unmatched call was reported before a
\* matched one for the same caller, with a node after that caller.
C13_Witness ==
    /\ cga.pc = "returned"
    /\ \E j \in DOMAIN cga.calls :
          /\ Matches(cga.graph.nodes, cga.calls[j].name) = {}
          /\ j + 1 \in DOMAIN cga.calls
          /\ cga.calls[j + 1].caller = cga.calls[j].caller
          /\ Matches(cga.graph.nodes, cga.calls[j + 1].name) /= {}
          /\ cga.calls[j].caller < Len(cga.graph.nodes)
    /\ Len(cga.graph.edges) = 1

\* No entry of the sequence occurs twice.
Distinct(seq) == \A i, j \in DOMAIN seq : i /= j => seq[i] /= seq[j]

CalleesOf(id) ==
    LET es == SelectSeq(cga.graph.edges, LAMBDA e : e.caller_id = id)
    IN  [k \in DOMAIN es |-> es[k].callee_id]

\* Every reported call lies inside the span of the node it was reported for.
CallsInsideSpans ==
    \A c \in DOMAIN cga.calls :
        LET func == cga.graph.nodes[cga.calls[c].caller]
        IN  func.loc.line_start <= cga.calls[c].file_line
               /\ cga.calls[c].file_line <= func.loc.line_end

Occurrences(seq, x) == Cardinality({k \in DOMAIN seq : seq[k] = x})

\* C16: a response with an action whose name is not registered ends the scan
\* with an error.  The actions before it were applied and no other one is
\* (the heap has grown by the found_target actions before it; the window is
\* the one presented unless a retry_with came before it); after the error no
\* request is made and no forest is returned.
C16_UnknownActionAborts ==
    /\ [][(pc = "await" /\ \E k \in DOMAIN hist'.last.names :
                              ~Registered(agent, hist'.last.names[k])) =>
            /\ pc' = "raised"
            /\ error' = "ValueError"
            /\ Len(agent'.heap) = Len(agent.heap)
                                    + Occurrences(hist'.last.names, "found_target")
            /\ Occurrences(hist'.last.names, "retry_with") = 0 =>
                  /\ agent'.start_line = agent.start_line
                  /\ agent'.end_line = agent.end_line
            /\ stack' = stack]_vars
    /\ [][pc = "raised" =>
            pc' = "raised" /\ agent' = agent /\ hist'.windows = hist.windows]_vars

\* The scan has ended with the error of a response whose first action had an
\* unregistered name and which had more actions after it.
C16_Witness ==
    /\ pc = "raised"
    /\ error = "ValueError"
    /\ hist.last.names = <<"unknown_action">>
    /\ hist.last.more
    /\ agent.heap = <<>>
    /\ Len(hist.windows) = 1

\* C17: an empty completion (empty once the markers are stripped) or an empty
\* actions list is no error: the response step adds no Result and no blacked
\* range, and when the window ends below the upper limit the scan goes on
\* with the window that starts right after it.
C17_EmptyResponseAdvances ==
    [][(pc = "await" /\ hist'.last.parses /\ hist'.last.names = <<>>) =>
          /\ pc' /= "raised"
          /\ error' = ""
          /\ agent'.heap = agent.heap
          /\ agent'.found = agent.found
          /\ agent'.blacked_lines = agent.blacked_lines
          /\ agent.end_line < agent.end_line_limit =>
                /\ pc' = "loop"
                /\ agent'.start_line = agent.end_line + 1
                /\ agent'.start_line <= agent'.end_line
                /\ agent'.end_line <= agent.end_line_limit]_vars

\* The scan has gone on to the second window of a level after a response
\* without actions to the first.
C17_Witness ==
    /\ pc = "loop"
    /\ Len(hist.windows) = 1
    /\ hist.last.parses
    /\ hist.last.names = <<>>
    /\ Window(hist).end_line < hist.upper
    /\ agent.start_line = Window(hist).end_line + 1
    /\ agent.heap = <<>>
    /\ agent.blacked_lines = <<>>

(***************************************************************************)
(* Properties of the file system (specification SpecFS).                   *)
(***************************************************************************)
\* C18: read_file_with_lines of an existing file fails with the range error
\* whenever start_line > end_line or a line is outside the file (start_line
\* < 1 or end_line > number of lines); it returns text only when
\* 1 <= start_line <= end_line <= number of lines.
C18_WindowRangeChecked ==
    (cfs.last.op = "read_file_with_lines" /\ cfs.last.raised /= "FileNotFoundError") =>
        LET count == Len(cfs.cache[cfs.last.path].text)
            valid == /\ 1 <= cfs.last.start_line
                     /\ cfs.last.start_line <= cfs.last.end_line
                     /\ cfs.last.end_line <= count
        IN  /\ valid => cfs.last.raised = ""
            /\ ~valid => cfs.last.raised = "ValueError"

\* C19: read_file(p) returns the text of the latest write through the
\* instance, else the text the disk held at the instance's first read of p,
\* whatever the disk holds now; get_file_metadata and read_file_with_lines
\* are computed from that same text.
C19_ReadsCachedText ==
    LET seen == cfs.seen[cfs.last.path]
    IN  /\ (cfs.last.op = "read_file" /\ cfs.last.raised = "") =>
              seen.present /\ cfs.last.text = seen.text
        /\ (cfs.last.op = "get_file_metadata" /\ cfs.last.raised = "") =>
              seen.present /\ cfs.last.lines = Len(seen.text)
        /\ (cfs.last.op = "read_file_with_lines" /\ cfs.last.raised = ""
               /\ 1 <= cfs.last.start_line) =>
              /\ seen.present
              /\ cfs.last.text = SubSeq(seen.text, cfs.last.start_line,
                                        cfs.last.end_line)

\* A read_file that returned a text the disk no longer holds, or never held.
C19_Witness ==
    /\ cfs.last.op = "read_file"
    /\ cfs.last.raised = ""
    /\ cfs.disk[cfs.last.path] /= Present(cfs.last.text)

\* C20: what list_files returns is filtered by the white list, for a
\* directory argument and for a single-file argument alike (an empty white
\* list filters nothing).
C20_ListFiltered ==
    cfs.last.op = "list_files" =>
        \A f \in cfs.last.files : IsInWhiteList(cfs, f)

(***************************************************************************)
(* parse_omitted_lines (SpecOmit).                                         *)
(***************************************************************************)
ParseDone == omc.fn = "parse_omitted_lines" /\ omc.pc /= "init"

\* The comma-separated tokens of a string.
Tokens(s) == Split(s, ",")

\* The number a numeral names: the one whose decimal writing it is.
MaxNumber == 10 ^ MaxSpecLen

NumberOf(numeral) == CHOOSE n \in 0..MaxNumber : Str(n) = numeral

\* A token is a numeral, or two numerals with one "-" between them.
Dashes(token) == {k \in DOMAIN token : token[k] = "-"}

IsSingle(token) == IsNumeral(token)

IsRange(token) ==
    /\ Cardinality(Dashes(token)) = 1
    /\ LET k == CHOOSE k \in Dashes(token) : TRUE
       IN  /\ IsNumeral(SubSeq(token, 1, k - 1))
           /\ IsNumeral(SubSeq(token, k + 1, Len(token)))

WellFormed(token) == IsSingle(token) \/ IsRange(token)

\* The line numbers a well-formed token names.
NamedBy(token) ==
    IF IsSingle(token) THEN {NumberOf(token)}
    ELSE LET k == CHOOSE k \in Dashes(token) : TRUE
         IN  NumberOf(SubSeq(token, 1, k - 1))
                 ..NumberOf(SubSeq(token, k + 1, Len(token)))

\* C21: parse_omitted_lines of a string of well-formed tokens returns the union
\* of the numbers its tokens name, {n} for a numeral n and a..b for "a-b", and
\* the empty set for the empty string.
C21_ParseReturnsUnion ==
    ParseDone =>
        /\ omc.omitted_lines = <<>> =>
              omc.pc = "returned" /\ omc.result_set = {}
        /\ (omc.omitted_lines /= <<>>
            /\ \A k \in DOMAIN Tokens(omc.omitted_lines) :
                   WellFormed(Tokens(omc.omitted_lines)[k])) =>
              /\ omc.pc = "returned"
              /\ omc.result_set =
                     UNION {NamedBy(Tokens(omc.omitted_lines)[k]) :
                                k \in DOMAIN Tokens(omc.omitted_lines)}

\* The string of test_parse_omitted_lines_ranges_and_single has been parsed.
C21_Witness ==
    /\ ParseDone
    /\ omc.omitted_lines = <<"2", "-", "4", ",", "6">>
    /\ omc.result_set = {2, 3, 4, 6}

\* C22: parse_omitted_lines of a string with a malformed token (an empty
\* token, a bound that is no numeral, more than one "-") raises ValueError and
\* gives no set, whatever well-formed tokens stand before or after it.
C22_MalformedTokenRaises ==
    (/\ ParseDone
     /\ omc.omitted_lines /= <<>>
     /\ \E k \in DOMAIN Tokens(omc.omitted_lines) :
            ~WellFormed(Tokens(omc.omitted_lines)[k])) =>
        /\ omc.pc = "raised"
        /\ omc.raised = "ValueError"
        /\ omc.result_set = {}

\* A malformed token after a well-formed one: "1,x" and "1-2-" were parsed.
C22_Witness ==
    /\ ParseDone
    /\ omc.omitted_lines \in {<<"1", ",", "x">>, <<"1", "-", "2", "-">>,
                              <<"1", ",", ",", "2">>}
    /\ omc.pc = "raised"

\* The sets of line numbers with their range notation.
Notations == {<<S, FormatRanges(S)>> : S \in SUBSET (1..MaxRun)}

\* C23: parsing the range notation of a finite set S of positive line numbers
\* (its maximal runs, "a-b" or "a", separated by commas) returns exactly S.
C23_RoundTrip ==
    ParseDone =>
        \A sn \in Notations :
            omc.omitted_lines = sn[2] =>
                omc.pc = "returned" /\ omc.result_set = sn[1]

\* A set with runs, singletons and numbers of two digits went the round.
C23_Witness ==
    /\ ParseDone
    /\ omc.omitted_lines = FormatRanges({1, 2, 3, 5, 9, 10, 11})
    /\ omc.omitted_lines = <<"1", "-", "3", ",", "5", ",", "9", "-", "1", "1">>
    /\ omc.result_set = {1, 2, 3, 5, 9, 10, 11}

(***************************************************************************)
(* omit_lines (SpecOmit).                                                  *)
(***************************************************************************)
OmitDone == omc.fn = "omit_lines" /\ omc.pc = "returned"

\* The line numbers of a list of entries, in its order.
Numbers(lines) == [k \in DOMAIN lines |-> lines[k][1].int]

NumberSet(lines) == {lines[k][1].int : k \in DOMAIN lines}

\* The maximal contiguous runs of a set of numbers, as (first, last).
Runs(O) ==
    {r \in O \X O :
        /\ r[1] <= r[2]
        /\ \A n \in r[1]..r[2] : n \in O
        /\ (r[1] - 1) \notin O
        /\ (r[2] + 1) \notin O}

\* The label of a run: "[omitted lines: a]" or "[omitted lines: a-b]".
Label(r) ==
    <<"[omitted lines: ">> \o Str(r[1])
        \o (IF r[1] = r[2] THEN <<>> ELSE <<"-">> \o Str(r[2])) \o <<"]">>

\* An entry of the output that stands for a run: it carries the run's label.
IsMarkerOf(entry, r) == \E j \in 1..2 : entry[j] = PyStr(Label(r))

\* The run of O a number lies in.
RunOf(n, O) == CHOOSE r \in Runs(O) : r[1] <= n /\ n <= r[2]

\* The positions of the input a position of the output comes from: an entry
\* that is kept comes from its own position, a marker from the first position
\* of its run.
Sources(lines, O) ==
    SelectSeq([k \in DOMAIN lines |-> k],
              LAMBDA k : \/ Numbers(lines)[k] \notin O
                         \/ (Numbers(lines)[k] - 1) \notin O)

\* C24: when every omitted number is the number of a line of the list, the
\* output is the list with each maximal contiguous run of omitted numbers
\* replaced, at its place, by one marker labelled "a-b" ("a" for one number),
\* runs at the start and at the end of the list included.
C24_OneMarkerPerRun ==
    (OmitDone /\ omc.omitted_set \subseteq NumberSet(omc.lines)) =>
        LET src == Sources(omc.lines, omc.omitted_set)
        IN  /\ Len(omc.result) = Len(src)
            /\ \A k \in DOMAIN src :
                   IF Numbers(omc.lines)[src[k]] \in omc.omitted_set
                   THEN IsMarkerOf(omc.result[k],
                                   RunOf(Numbers(omc.lines)[src[k]],
                                         omc.omitted_set))
                   ELSE omc.result[k] = omc.lines[src[k]]

\* Lines 1..5 with 1, 2 and 5 omitted: a run at the start, one at the end.
C24_Witness ==
    /\ OmitDone
    /\ Numbers(omc.lines) = <<1, 2, 3, 4, 5>>
    /\ omc.omitted_set = {1, 2, 5}
    /\ Len(omc.result) = 4
    /\ IsMarkerOf(omc.result[1], <<1, 2>>)
    /\ omc.result[2] = Line(3)
    /\ IsMarkerOf(omc.result[4], <<5, 5>>)

\* The entries of the output that are entries of the input.
Kept(result, lines) ==
    SelectSeq(result, LAMBDA e : \E k \in DOMAIN lines : e = lines[k])

\* The runs of removed entries: the maximal runs of the omitted numbers that
\* are numbers of lines of the list.
RemovedRuns(lines, O) == Runs(O \cap NumberSet(lines))

\* C25: for any ordered list and any omitted set (numbers that are not in the
\* list, runs that begin before or end after it included), no entry with an
\* omitted number remains in the output, every run of removed entries has
\* given one marker, the other entries are there unchanged and in their
\* order, and with an empty omitted set the output is the input.
C25_OmitAnySet ==
    OmitDone =>
        /\ \A k \in DOMAIN omc.result :
               omc.result[k][1].int \notin omc.omitted_set
        /\ Len(omc.result) - Len(Kept(omc.result, omc.lines))
               = Cardinality(RemovedRuns(omc.lines, omc.omitted_set))
        /\ Kept(omc.result, omc.lines)
               = SelectSeq(omc.lines,
                           LAMBDA e : e[1].int \notin omc.omitted_set)
        /\ omc.omitted_set = {} => omc.result = omc.lines

\* The sequence of the first elements of the entries (extract_line_nums).
ExtractLineNums(result) == [k \in DOMAIN result |-> result[k][1]]

\* C26: in the output of omit_lines the first element of a marker entry is
\* the label string, so that the first elements of lines 1..5 with 3 omitted
\* read 1, 2, "[omitted lines: 3]", 4, 5.
C26_MarkerFirstIsLabel ==
    OmitDone =>
        /\ \A k \in DOMAIN omc.result :
               (\A i \in DOMAIN omc.lines : omc.result[k] /= omc.lines[i]) =>
                   \E r \in Runs(omc.omitted_set) :
                       omc.result[k][1] = PyStr(Label(r))
        /\ (Numbers(omc.lines) = <<1, 2, 3, 4, 5>> /\ omc.omitted_set = {3}) =>
               ExtractLineNums(omc.result)
                   = <<PyInt(1), PyInt(2), PyStr(Label(<<3, 3>>)),
                       PyInt(4), PyInt(5)>>

(***************************************************************************)
(* Termination of the scan (SpecLive).  _start_loop runs in one thread and *)
(* every pass of its loop that can be taken is taken: weak fairness of the *)
(* step.                                                                   *)
(***************************************************************************)
SpecLive == Spec /\ WF_vars(Next)

\* run has returned or an exception has left it.
RunEnded == pc \in {"returned", "raised"}

\* C27: with an oracle that returns no retry_with, every call of _start_loop
\* comes to its end after finitely many passes, so that the run ends; in
\* particular the loop does not pass forever through the positioning step
\* without a request when a blacked range begins at the window's start.
C27_ScanTerminates == <>(RunEnded \/ hist.retries > 0)

\* The pass of the loop that ends at "continue": positioning has left the
\* window empty, a resume point is recorded and start, moved past it, is not
\* above the upper limit.
SkipPass ==
    /\ pc = "loop"
    /\ Positioned.start_line > Positioned.end_line
    /\ Positioned.nmf.tag = "int"
    /\ Positioned.nmf.val + 1 <= agent.end_line_limit

\* The window that this pass leaves for the next one.
AfterSkip == NextMore(Resumed(Positioned), MoreLines)

\* C28: when positioning leaves start > end with a resume point r (the end
\* of the blacked range + 1) and r + 1 is not above the upper limit, the
\* window that the loop positions next begins at r + 1.
C28_ResumeAfterBlacked ==
    SkipPass => AfterSkip.start_line = Positioned.nmf.val + 1

\* A call of _start_loop is at its first pass.
FirstPass == pc = "loop" /\ hist.windows = <<>> /\ ~hist.adjusted

\* C29: at the start of every call of _start_loop, for a top-level target or
\* for a child, the window is start = max(1, lower limit) and
\* end = min(start + 30 - 1, upper limit), so that start <= end when the
\* lower limit is not above the upper limit.
C29_FirstWindow ==
    FirstPass =>
        /\ agent.start_line = Max(1, agent.start_line_limit)
        /\ agent.end_line = Min(agent.start_line + ChunkSize - 1,
                                agent.end_line_limit)
        /\ agent.start_line_limit <= agent.end_line_limit =>
               agent.start_line <= agent.end_line

\* C30: the window read straight after a response with retry_with is read
\* with the omitted lines that action gave, and every other window of the
\* level is read with none.
C30_RetryOmissionOnce ==
    \A k \in DOMAIN hist.windows :
        hist.windows[k].omitted_lines =
            IF hist.windows[k].retry.set
            THEN hist.windows[k].retry.omitted_lines
            ELSE ""

\* The nodes of the returned graph that carry the id.
NodesWithId(id) ==
    {k \in DOMAIN cga.graph.nodes : NodeId(cga.graph.nodes[k]) = id}

\* C40: in every returned graph the caller_id and the callee_id of each edge
\* are ids of nodes of the graph's node list, and the file of the edge's call
\* site is the file of the caller node.
C40_EdgeEndsAreNodes ==
    cga.pc = "returned" =>
        \A k \in DOMAIN cga.graph.edges :
            LET e == cga.graph.edges[k]
            IN  /\ NodesWithId(e.callee_id) /= {}
                /\ NodesWithId(e.caller_id) /= {}
                /\ \A n \in NodesWithId(e.caller_id) :
                       e.attributes.loc.file = cga.graph.nodes[n].loc.file

\* A returned graph with an edge from a node of one file to a node of another.
C40_Witness ==
    /\ cga.pc = "returned"
    /\ \E k \in DOMAIN cga.graph.edges :
          \E n \in NodesWithId(cga.graph.edges[k].caller_id),
             m \in NodesWithId(cga.graph.edges[k].callee_id) :
              cga.graph.nodes[n].loc.file /= cga.graph.nodes[m].loc.file

\* The nodes that target_map_fn makes of the found_target actions handled so
\* far, each once, in the order of their discovery.
Discovered == [k \in DOMAIN cga.reports |-> TargetMapFn(cga.reports[k])]

\* C39: each run(file) of the one DocAgent returns only the results found
\* during that run, so that the node list collected over the files, whenever
\* a run has returned, holds each discovered function exactly once.
C39_RunReturnsOwnResults ==
    cga.pc \in {"files", "edges", "edge_await", "returned"} =>
        cga.all_functions = Discovered

LevelDone == pc = "recurse" /\ hist.over /\ Top.target = hist.target

\* The line lies in a blacked range of the level.
InBlacked(l) ==
    \E k \in DOMAIN agent.blacked_lines :
        agent.blacked_lines[k][1] <= l /\ l <= agent.blacked_lines[k][2]

\* C38: when a level has reached DONE, every line of its range
\* lower_limit..upper_limit that lies in no blacked range of the level is in
\* a window that was presented to the oracle.
C38_AllLinesPresented ==
    LevelDone =>
        \A l \in hist.lower..hist.upper :
            ~InBlacked(l) => \E i \in DOMAIN hist.windows : l \in Lines(hist.windows[i])

\* C36: at every oracle request the registered found_target action carries
\* the schema of the target whose call of _start_loop issues the request,
\* and every Result has the id of the target at whose level it was found,
\* whichever top-level targets and child scans came before.
C36_SchemaOfActiveTarget ==
    /\ pc = "await" =>
          /\ agent.found_schema = Top.target
          /\ hist.target = Top.target
    /\ \A id \in DOMAIN agent.heap :
          agent.heap[id].target_id = hist.origin[id].target

\* A request of the second top-level target, after a child scan of the first
\* was entered and left and a Result was found in it.
C36_Witness ==
    /\ pc = "await"
    /\ ti = 2
    /\ hist.recursed /= <<>>
    /\ \E id \in DOMAIN agent.heap :
          /\ hist.origin[id].parent /= None
          /\ agent.heap[id].target_id /= agent.heap[hist.origin[id].parent].target_id

\* The number of child scans that were started for the Result.
ScansOf(id) == Cardinality({k \in DOMAIN hist.recursed : hist.recursed[k] = id})

\* A top-level call of _start_loop is at its end: its loop and the child
\* scans under it, like all the calls before it, are over.
TopLevelCallEnds == LoopDone /\ Len(stack) = 1

\* The Result whose child scan is running.
Scanned == agent.heap[hist.recursed[Len(hist.recursed)]]

\* C31: when a top-level call of _start_loop ends, every Result found so
\* far, at whatever depth, has had one child scan for each child of its
\* target (none for a childless target), and every child scan of a Result
\* with a span has that span as its limits.
C31_EveryResultScanned ==
    /\ TopLevelCallEnds =>
          \A id \in DOMAIN agent.heap :
              ScansOf(id) = Len(TargetDefs[agent.heap[id].target_id].children)
    /\ (Len(stack) > 1 /\ pc \in {"loop", "await"} /\ HasSpan(Scanned)) =>
          /\ hist.lower = Scanned.data.start_line
          /\ hist.upper = Scanned.data.end_line


\* The Result id is among the children of the Result p; it is in self._found.
IsChildOf(id, p) == \E k \in DOMAIN agent.heap[p].children : agent.heap[p].children[k] = id

InForest(id) == \E k \in DOMAIN agent.found : agent.found[k] = id

\* C32: every Result found while a child scan for a parent Result P was
\* running is among P's children and not in the top-level forest, whichever
\* child target of P was being scanned; every Result found by a top-level
\* scan is in the top-level forest.
C32_ResultsUnderActiveParent ==
    \A id \in DOMAIN agent.heap :
        IF hist.origin[id].scanned /= None
        THEN IsChildOf(id, hist.origin[id].scanned) /\ ~InForest(id)
        ELSE InForest(id)

\* A child scan is at its first pass.
ChildFirstPass == FirstPass /\ Len(stack) > 1

\* C33: when a call of _start_loop returns, the read limits and the blacked
\* ranges are those the level had when its while loop was left, whatever the
\* child scans under it did; and every child scan starts with an empty list
\* of blacked ranges and, for a parent Result with a span, with that span as
\* its limits.
C33_OuterStateRestored ==
    /\ [][LoopDone =>
             /\ agent'.start_line_limit = Top.done.lower
             /\ agent'.end_line_limit = Top.done.upper
             /\ agent'.blacked_lines = Top.done.blacked]_vars
    /\ [](ChildFirstPass =>
             /\ agent.blacked_lines = <<>>
             /\ HasSpan(Scanned) =>
                    /\ agent.start_line_limit = Scanned.data.start_line
                    /\ agent.end_line_limit = Scanned.data.end_line)

\* A call of _start_loop at its end whose child scans found a Result of
\* their own, the level having blacked ranges itself.
C33_Witness ==
    /\ LoopDone
    /\ Children(Top) /= <<>>
    /\ Top.done.blacked /= <<>>
    /\ \E id \in DOMAIN agent.heap :
          hist.origin[id].scanned /= None /\ HasSpan(agent.heap[id])

\* The windows of the level that no retry_with has set.
OwnWindows == {k \in DOMAIN hist.windows : ~hist.windows[k].retry.set}

\* A child scan of a parent Result with a span is running.
InChildScan == Len(stack) > 1 /\ pc \in {"loop", "await"} /\ HasSpan(Scanned)

InsideSpan(w, r) ==
    r.data.start_line <= w.start_line /\ w.end_line <= r.data.end_line

\* C34 as stated: every window that was not set by a retry_with lies inside
\* the limits of its level, lower <= start <= end <= upper, and so, in a
\* child scan, inside the span of the parent Result.
C34_WindowInsideLimits ==
    \A k \in OwnWindows :
        /\ hist.windows[k].lower <= hist.windows[k].start_line
        /\ hist.windows[k].start_line <= hist.windows[k].end_line
        /\ hist.windows[k].end_line <= hist.windows[k].upper
        /\ InChildScan => InsideSpan(hist.windows[k], Scanned)

\* C34 amended: every window that was not set by a retry_with has
\* start <= end <= upper; as long as the level has received no retry_with
\* before it, it has lower <= start as well and, in a child scan, lies
\* inside the span of the parent Result.
C34_WindowInsideLimitsBeforeRetry ==
    \A k \in OwnWindows :
        /\ hist.windows[k].start_line <= hist.windows[k].end_line
        /\ hist.windows[k].end_line <= hist.windows[k].upper
        /\ ~hist.windows[k].after_retry =>
               /\ hist.windows[k].lower <= hist.windows[k].start_line
               /\ InChildScan => InsideSpan(hist.windows[k], Scanned)

\* A request of a child scan, its window not set by a retry_with and with no
\* retry_with before it, the parent Result having a span.
C34_Witness ==
    /\ pc = "await"
    /\ InChildScan
    /\ ~Window(hist).retry.set
    /\ ~Window(hist).after_retry

\* The fields start_line and end_line as the oracle gave them.
BothFields(r) == r.data.has_start /\ r.data.has_end

\* The (start_line, end_line) pairs of the Results of heap after the first n
\* that were reported with both fields, in order.
RECURSIVE SpansAfter(_, _)
SpansAfter(heap, n) ==
    IF n >= Len(heap) THEN <<>>
    ELSE (IF BothFields(heap[n + 1])
          THEN <<<<heap[n + 1].data.start_line, heap[n + 1].data.end_line>>>>
          ELSE <<>>) \o SpansAfter(heap, n + 1)

\* The number of found_target actions among the names.
FoundCount(names) ==
    Cardinality({k \in DOMAIN names : names[k] = "found_target"})

====
